---- MODULE Spec2Model ----
(***************************************************************************)
(* Server酱³ Bot channel plugin: webhook registry and request handler,     *)
(* update processor, polling loop and account lifecycle (gateway           *)
(* startAccount), modelled from src/src/channel.ts and the API client.     *)
(*                                                                         *)
(* Strings are sequences of atoms.  An atom is a blank " ", a slash "/",   *)
(* a decimal digit, or an unbroken run of other characters (for instance   *)
(* "hook" or the origin "https://h" of a URL), so that trim(), startsWith, *)
(* endsWith and slice(0, -1) act on them exactly as on the characters.     *)
(***************************************************************************)
EXTENDS Integers, Sequences, FiniteSets, TLC

\* ------------------------------------------------------------------ bounds
MaxFetches == 2
MaxBatch == 2
MaxDeliver == 1
MaxTargets == 2
MaxChunks == 2

\* ------------------------------------------------------- values and strings
\* JavaScript's undefined and null, as strings no program string equals.
Undef == <<"undefined">>
Null == <<"null">>
\* An absent number (undefined or null where a number is expected).
NoNum == -1
\* parseInt's NaN.
NaN == -2

\* A value is truthy when it is neither undefined, null nor the empty string.
Truthy(s) == s # Undef /\ s # Null /\ s # <<>>

RECURSIVE TrimStart(_)
TrimStart(s) ==
    IF s # <<>> /\ Head(s) = " " THEN TrimStart(Tail(s)) ELSE s

RECURSIVE TrimEnd(_)
TrimEnd(s) ==
    IF s # <<>> /\ s[Len(s)] = " " THEN TrimEnd(SubSeq(s, 1, Len(s) - 1)) ELSE s

\* String.prototype.trim
Trim(s) == TrimEnd(TrimStart(s))

\* s?.trim()
OptTrim(s) == IF s = Undef THEN Undef ELSE Trim(s)

DigitAtoms == <<"0", "1", "2", "3", "4", "5", "6", "7", "8", "9">>

\* String(n) for a number n >= 0: its decimal digits.
RECURSIVE NumToStr(_)
NumToStr(n) ==
    IF n < 10 THEN <<DigitAtoms[n + 1]>>
    ELSE NumToStr(n \div 10) \o <<DigitAtoms[(n % 10) + 1]>>

IsDigit(c) == \E d \in 1..10 : DigitAtoms[d] = c

DigitValue(c) == (CHOOSE d \in 1..10 : DigitAtoms[d] = c) - 1

RECURSIVE ParseDigits(_, _)
ParseDigits(s, acc) ==
    IF s # <<>> /\ IsDigit(Head(s))
    THEN ParseDigits(Tail(s), acc * 10 + DigitValue(Head(s)))
    ELSE acc

\* Number.parseInt(s, 10): leading blanks skipped, then the leading digits.
ParseInt(s) ==
    LET t == TrimStart(s)
    IN  IF t # <<>> /\ IsDigit(Head(t)) THEN ParseDigits(t, 0) ELSE NaN

\* ------------------------------------------------------------ webhook paths
normalizeWebhookPath(raw) ==
    LET trimmed == Trim(raw)
        withSlash == IF trimmed # <<>> /\ Head(trimmed) = "/"
                     THEN trimmed ELSE <<"/">> \o trimmed
    IN  IF trimmed = <<>> THEN <<"/">>
        ELSE IF Len(withSlash) > 1 /\ withSlash[Len(withSlash)] = "/"
             THEN SubSeq(withSlash, 1, Len(withSlash) - 1)
             ELSE withSlash

\* new URL(u): the parser strips surrounding blanks; a string parses (without
\* a base) exactly when it begins with an origin.
UrlOrigin == "https://h"

UrlParses(u) ==
    LET t == Trim(u) IN t # <<>> /\ Head(t) = UrlOrigin

\* URL.pathname of a string that parses: what follows the origin, "/" if nothing.
UrlPathname(u) ==
    LET rest == Tail(Trim(u)) IN IF rest = <<>> THEN <<"/">> ELSE rest

DefaultWebhookPath == <<"/", "serverchan-bot">>

resolveWebhookPath(webhookPath, webhookUrl) ==
    LET trimmedPath == OptTrim(webhookPath)
    IN  IF Truthy(trimmedPath) THEN normalizeWebhookPath(trimmedPath)
        ELSE IF Truthy(OptTrim(webhookUrl))
             THEN IF UrlParses(webhookUrl)
                  THEN normalizeWebhookPath(
                           IF Truthy(UrlPathname(webhookUrl))
                           THEN UrlPathname(webhookUrl) ELSE <<"/">>)
                  ELSE Null
             ELSE DefaultWebhookPath

\* ---------------------------------------------------------- mode selection
hasWebhookConfig(config) ==
    \/ Truthy(OptTrim(config.webhookUrl))
    \/ Truthy(OptTrim(config.webhookPath))
    \/ Truthy(OptTrim(config.webhookSecret))

\* typeof pollingEnabled === "boolean"
IsBoolean(v) == v \in {"true", "false"}

shouldPoll(config) ==
    IF IsBoolean(config.pollingEnabled)
    THEN config.pollingEnabled = "true"
    ELSE ~hasWebhookConfig(config)

\* Mutant: a webhook target is wanted whenever webhook settings exist.
wantsWebhookWhenConfigured(config) == hasWebhookConfig(config)

wantsWebhook(config) ==
    IF IsBoolean(config.pollingEnabled)
    THEN config.pollingEnabled # "true"
    ELSE hasWebhookConfig(config)

\* ------------------------------------------------------------------ state
VARIABLES
    account,          \* startAccount: ctx.account, the resolved account
    lpc,              \* startAccount: where the call stands
    thrown,           \* startAccount: the error it rejected with ("" if none)
    aborted,          \* ctx.abortSignal.aborted
    abortListeners,   \* the once-listeners of the signal: unregister closures
    status,           \* the runtime status of each account (setStatus)
    webhookTargets,   \* the registry: normalized path -> list of targets
    nextTargetId,     \* identity of the next normalizedTarget object
    ppc,              \* monitorServerChanBotPolling: where the loop stands
    offset,           \* its cursor
    batch,            \* result.result of the fetch being iterated
    idx,              \* how many updates of batch were handed to onUpdate
    handed,           \* the updates onUpdate was called with, of this batch
    lastHanded,       \* update_id of the latest update onUpdate was called with
    fetches,          \* fetches issued so far
    fetchBudget,      \* fetches the run may issue (the bound of the model)
    batchBudget,      \* updates one fetch may return (the bound of the model)
    deliverBudget,    \* deliver calls one dispatch may make (the bound of the model)
    fetchOffset,      \* the offset the latest fetch was issued with
    lastFetch,        \* how the latest fetch ended
    pollLogged,       \* console.error called since the latest fetch ended
    slept,            \* the backoff elapsed since the latest fetch ended
    proc,             \* processServerChanBotUpdate calls, by slot
    closures,         \* the unregister closures handed out
    called,           \* the closures that have been invoked
    req,              \* handleServerChanBotWebhookRequest calls, by request
    requests,         \* webhook requests received so far
    cfg,              \* the host's configuration and the process environment
    resolved,         \* resolveServerChanBotAccount's latest result
    listed,           \* listServerChanBotAccountIds' latest result
    parseCall         \* parseWebhookPayload's latest argument and result

cfgVars == <<cfg, resolved, listed>>
lifeVars == <<account, lpc, thrown, aborted, abortListeners, cfgVars, parseCall>>
pollVars == <<ppc, offset, batch, idx, handed, lastHanded, fetches, fetchBudget,
              batchBudget, deliverBudget, fetchOffset, lastFetch, pollLogged, slept>>
regVars == <<webhookTargets, nextTargetId, closures, called>>
reqVars == <<req, requests>>
vars == <<lifeVars, pollVars, regVars, reqVars, status, proc>>

\* Slot 0 is the polling loop's onUpdate call.
PollSlot == 0

AccountIds == {"default", "work"}

BotToken == <<"tok">>

\* --------------------------------------------------------------- registry
EmptyMap == [k \in {} |-> <<>>]

MapGet(m, k) == IF k \in DOMAIN m THEN m[k] ELSE <<>>

MapSet(m, k, v) == [x \in (DOMAIN m) \cup {k} |-> IF x = k THEN v ELSE m[x]]

MapDelete(m, k) == [x \in (DOMAIN m) \ {k} |-> m[x]]

\* list.filter((entry) => entry !== target): identity is the entry's id.
RECURSIVE FilterNot(_, _)
FilterNot(list, id) ==
    IF list = <<>> THEN <<>>
    ELSE IF Head(list).id # id THEN <<Head(list)>> \o FilterNot(Tail(list), id)
         ELSE FilterNot(Tail(list), id)

\* registerServerChanBotWebhookTarget: the registry after the call.  id is the
\* identity of the fresh normalizedTarget object.
RegistryAfterRegister(registry, target, id) ==
    LET key == normalizeWebhookPath(target.path)
        normalizedTarget == [target EXCEPT !.path = key, !.id = id]
    IN  MapSet(registry, key, Append(MapGet(registry, key), normalizedTarget))

\* Mutant: a closure that no longer finds its target drops the path's latest.
RegistryAfterUnregisterPop(registry, key, id) ==
    LET list == MapGet(registry, key)
        updated == IF FilterNot(list, id) # list THEN FilterNot(list, id)
                   ELSE SubSeq(list, 1, Len(list) - 1)
    IN  IF Len(updated) > 0 THEN MapSet(registry, key, updated)
        ELSE MapDelete(registry, key)

\* Mutant: targets are compared by their fields, not by identity.
RegistryAfterUnregisterEqual(registry, key, id) ==
    LET list == MapGet(registry, key)
        Same(t) == \A i \in 1..Len(list) :
                      list[i].id = id =>
                          /\ list[i].secret # t.secret
                             \/ list[i].account # t.account
        updated == SelectSeq(list, Same)
    IN  IF Len(updated) > 0 THEN MapSet(registry, key, updated)
        ELSE MapDelete(registry, key)

\* Mutant: a path whose last target is removed stays mapped, to an empty list.
RegistryAfterUnregisterKeepsKey(registry, key, id) ==
    MapSet(registry, key, FilterNot(MapGet(registry, key), id))

\* The closure registerServerChanBotWebhookTarget returns, invoked.
RegistryAfterUnregister(registry, key, id) ==
    LET updated == FilterNot(MapGet(registry, key), id)
    IN  IF Len(updated) > 0 THEN MapSet(registry, key, updated)
        ELSE MapDelete(registry, key)

RECURSIVE RunListeners(_, _)
\* The signal's abort event: every attached listener runs.
RunListeners(registry, listeners) ==
    IF listeners = {} THEN registry
    ELSE LET l == CHOOSE x \in listeners : TRUE
         IN  RunListeners(RegistryAfterUnregister(registry, l.key, l.id),
                          listeners \ {l})

\* The targets of the registry, on every path.
RegisteredTargets ==
    UNION {{webhookTargets[k][i] : i \in 1..Len(webhookTargets[k])} :
           k \in DOMAIN webhookTargets}

\* ------------------------------------------------------- update processor
\* No message context: the dispatcher has not been called.
NoContext == [From |-> Undef, To |-> Undef, SenderId |-> Undef, SessionKey |-> Undef]

\* The fields of msgContext derived from the chat id.
msgContext(chatId) ==
    [From |-> chatId, To |-> chatId, SenderId |-> chatId,
     SessionKey |-> <<"serverchan-bot:">> \o chatId]

\* A finished or not yet started processServerChanBotUpdate call.
IdleProc ==
    [state |-> "idle", accountId |-> "default", configuredChatId |-> Undef,
     chatId |-> Undef, delivers |-> 0, sendTo |-> NaN, sends |-> <<>>,
     outbound |-> FALSE, log |-> {}, ctx |-> NoContext]

\* Mutant: the sender's id is preferred to the direct chat_id field.
updateChatIdSenderFirst(message) ==
    IF message.chat # NoNum THEN message.chat
    ELSE IF message.from # NoNum THEN message.from
    ELSE message.chat_id

\* update.message.chat?.id ?? update.message.chat_id ?? update.message.from?.id
updateChatId(message) ==
    IF message.chat # NoNum THEN message.chat
    ELSE IF message.chat_id # NoNum THEN message.chat_id
    ELSE message.from

\* An update without a message object: reading update.message.chat throws.
NoMessage == [present |-> FALSE, message_id |-> NoNum, chat |-> NoNum,
              chat_id |-> NoNum, from |-> NoNum, text |-> Undef]

\* Mutant: the chat id is not checked before the update is dispatched.
ProcAfterStartUnchecked(update, acct) ==
    LET base == [IdleProc EXCEPT !.accountId = acct.accountId,
                                 !.configuredChatId = OptTrim(acct.config.chatId)]
    IN  IF ~update.message.present
        THEN [base EXCEPT !.state = "rejected"]
        ELSE LET chatId == IF updateChatId(update.message) = NoNum
                           THEN Undef
                           ELSE NumToStr(updateChatId(update.message))
             IN  [base EXCEPT !.state = "dispatching", !.chatId = chatId,
                              !.ctx = msgContext(chatId)]

\* processServerChanBotUpdate from its call to its first await: the call's
\* state once the dispatcher has been invoked (or the call has ended).
ProcAfterStart(update, acct) ==
    LET base == [IdleProc EXCEPT !.accountId = acct.accountId,
                                 !.configuredChatId = OptTrim(acct.config.chatId)]
    IN  IF ~update.message.present
        THEN [base EXCEPT !.state = "rejected"]
        ELSE IF updateChatId(update.message) = NoNum
        THEN [base EXCEPT !.state = "done", !.log = {"missing chat id"}]
        ELSE LET chatId == NumToStr(updateChatId(update.message))
             IN  [base EXCEPT !.state = "dispatching", !.chatId = chatId,
                              !.ctx = msgContext(chatId)]

\* statusSink({lastInboundAt}) of that call: made once the chat id is known.
StatusAfterStart(st, update, acct) ==
    IF update.message.present /\ updateChatId(update.message) # NoNum
    THEN [st EXCEPT ![acct.accountId].lastInboundAt = TRUE]
    ELSE st

\* The texts a reply payload may carry (payload.text).
ReplyTexts == {Undef, <<>>, <<" ">>, <<"hi">>}

\* Mutant: only an empty reply is skipped, a blank one is sent.
ProcAfterDeliverUntrimmed(p, payload) ==
    LET replyText == IF Truthy(payload.text) THEN payload.text ELSE <<>>
        targetChatId == IF Truthy(p.configuredChatId)
                        THEN p.configuredChatId ELSE p.chatId
    IN  IF replyText = <<>>
        THEN [p EXCEPT !.delivers = @ + 1]
        ELSE [p EXCEPT !.delivers = @ + 1, !.state = "sending",
                       !.sendTo = ParseInt(targetChatId)]

\* Mutant: the reply always goes back to the chat the update came from.
ProcAfterDeliverToOrigin(p, payload) ==
    LET replyText == IF Truthy(payload.text) THEN payload.text ELSE <<>>
    IN  IF Trim(replyText) = <<>>
        THEN [p EXCEPT !.delivers = @ + 1]
        ELSE [p EXCEPT !.delivers = @ + 1, !.state = "sending",
                       !.sendTo = ParseInt(p.chatId)]

\* deliver(payload), up to its await of serverChanBotSendMessage.
ProcAfterDeliver(p, payload) ==
    LET replyText == IF Truthy(payload.text) THEN payload.text ELSE <<>>
        targetChatId == IF Truthy(p.configuredChatId)
                        THEN p.configuredChatId ELSE p.chatId
    IN  IF Trim(replyText) = <<>>
        THEN [p EXCEPT !.delivers = @ + 1]
        ELSE [p EXCEPT !.delivers = @ + 1, !.state = "sending",
                       !.sendTo = ParseInt(targetChatId)]

\* The dispatcher calls deliver with a reply payload and awaits it.
Deliver(s) ==
    /\ proc[s].state = "dispatching"
    /\ proc[s].delivers < deliverBudget
    /\ \E text \in ReplyTexts :
           proc' = [proc EXCEPT ![s] = ProcAfterDeliver(proc[s], [text |-> text])]
    /\ UNCHANGED <<lifeVars, pollVars, regVars, reqVars, status>>

\* serverChanBotSendMessage settles: result.ok, result not ok, or a throw.
SendOutcomes == {"ok", "not ok", "threw"}

\* Mutant: the outbound timestamp is recorded whatever the send returned.
ProcAfterSendAlwaysOutbound(p, outcome) ==
    [p EXCEPT !.state = "dispatching",
              !.sends = Append(@, p.sendTo),
              !.sendTo = NaN,
              !.outbound = TRUE,
              !.log = IF outcome = "not ok" THEN @ \cup {"failed to send reply"}
                      ELSE IF outcome = "threw" THEN @ \cup {"send error"}
                      ELSE @]

\* deliver from the point its await of serverChanBotSendMessage settles.
ProcAfterSend(p, outcome) ==
    [p EXCEPT !.state = "dispatching",
              !.sends = Append(@, p.sendTo),
              !.sendTo = NaN,
              !.outbound = @ \/ outcome = "ok",
              !.log = IF outcome = "not ok" THEN @ \cup {"failed to send reply"}
                      ELSE IF outcome = "threw" THEN @ \cup {"send error"}
                      ELSE @]

SendDone(s) ==
    /\ proc[s].state = "sending"
    /\ \E outcome \in SendOutcomes :
           /\ proc' = [proc EXCEPT ![s] = ProcAfterSend(proc[s], outcome)]
           /\ status' = IF outcome = "ok"
                        THEN [status EXCEPT ![proc[s].accountId].lastOutboundAt = TRUE]
                        ELSE status
    /\ UNCHANGED <<lifeVars, pollVars, regVars, reqVars>>

\* The dispatcher reports a failed segment through onError(err, info).
OnError(s) ==
    /\ proc[s].state = "dispatching"
    /\ "reply failed" \notin proc[s].log
    /\ proc' = [proc EXCEPT ![s].log = @ \cup {"reply failed"}]
    /\ UNCHANGED <<lifeVars, pollVars, regVars, reqVars, status>>

\* dispatchReplyWithBufferedBlockDispatcher resolves with {queuedFinal}.
DispatchReturn(s) ==
    /\ proc[s].state = "dispatching"
    /\ \E queuedFinal \in BOOLEAN :
           proc' = [proc EXCEPT ![s].state = "done",
                                ![s].log = IF queuedFinal THEN @
                                           ELSE @ \cup {"no response generated"}]
    /\ UNCHANGED <<lifeVars, pollVars, regVars, reqVars, status>>

\* Mutant: the dispatcher's rejection is logged and rethrown.
DispatchThrowRethrown(s) ==
    /\ proc[s].state = "dispatching"
    /\ proc' = [proc EXCEPT ![s].state = "rejected",
                            ![s].log = @ \cup {"dispatch error"}]
    /\ UNCHANGED <<lifeVars, pollVars, regVars, reqVars, status>>

\* dispatchReplyWithBufferedBlockDispatcher rejects: caught and logged.
DispatchThrow(s) ==
    /\ proc[s].state = "dispatching"
    /\ proc' = [proc EXCEPT ![s].state = "done",
                            ![s].log = @ \cup {"dispatch error"}]
    /\ UNCHANGED <<lifeVars, pollVars, regVars, reqVars, status>>

\* ------------------------------------------------------------ polling loop
\* The update ids and message shapes the remote API may return.
UpdateIds == {0, 1}

Messages ==
    { NoMessage,
      [present |-> TRUE, message_id |-> 1, chat |-> NoNum, chat_id |-> 42,
       from |-> NoNum, text |-> <<"hi">>],
      [present |-> TRUE, message_id |-> 1, chat |-> NoNum, chat_id |-> NoNum,
       from |-> NoNum, text |-> <<"hi">>] }

Updates == [update_id : UpdateIds, message : Messages]

\* result.result of a successful fetch: any list of at most MaxBatch updates.
Batches == UNION {[1..n -> Updates] : n \in 0..MaxBatch}

\* Mutant: the loop never looks at the signal.
LoopTopIgnoresSignal ==
    /\ lpc = "polling"
    /\ ppc = "top"
    /\ fetches < fetchBudget
    /\ ppc' = "fetch"
    /\ fetches' = fetches + 1
    /\ fetchOffset' = offset
    /\ UNCHANGED <<lifeVars, regVars, reqVars, status, proc,
                   offset, batch, idx, handed, lastHanded, fetchBudget, batchBudget, deliverBudget,
                   lastFetch, pollLogged, slept>>

\* Mutant: onUpdate is not awaited, the loop goes round while it runs.
LoopTopWhileProcessing ==
    /\ lpc = "polling"
    /\ ppc \in {"top", "onUpdate"}
    /\ IF aborted
       THEN /\ ppc' = "done"
            /\ UNCHANGED <<fetches, fetchOffset>>
       ELSE /\ fetches < fetchBudget
            /\ ppc' = "fetch"
            /\ fetches' = fetches + 1
            /\ fetchOffset' = offset
    /\ UNCHANGED <<lifeVars, regVars, reqVars, status, proc,
                   offset, batch, idx, handed, lastHanded, fetchBudget, batchBudget, deliverBudget, lastFetch,
                   pollLogged, slept>>

\* while (!abortSignal.aborted): the loop ends, or issues the next fetch.
LoopTop ==
    /\ lpc = "polling"
    /\ ppc = "top"
    /\ IF aborted
       THEN /\ ppc' = "done"
            /\ UNCHANGED <<fetches, fetchOffset>>
       ELSE /\ fetches < fetchBudget
            /\ ppc' = "fetch"
            /\ fetches' = fetches + 1
            /\ fetchOffset' = offset
    /\ UNCHANGED <<lifeVars, regVars, reqVars, status, proc,
                   offset, batch, idx, handed, lastHanded, fetchBudget, batchBudget, deliverBudget, lastFetch,
                   pollLogged, slept>>

\* Mutant: the cursor is set to the update's id, not the id after it.
HandUpdateStale(update) ==
    /\ offset' = update.update_id
    /\ handed' = Append(handed, update)
    /\ lastHanded' = update.update_id
    /\ proc' = [proc EXCEPT ![PollSlot] = ProcAfterStart(update, account)]
    /\ status' = StatusAfterStart(status, update, account)
    /\ ppc' = "onUpdate"

\* Mutant: the update is handed and the cursor is left where it was.
HandUpdateKeepsCursor(update) ==
    /\ offset' = offset
    /\ handed' = Append(handed, update)
    /\ lastHanded' = update.update_id
    /\ proc' = [proc EXCEPT ![PollSlot] = ProcAfterStart(update, account)]
    /\ status' = StatusAfterStart(status, update, account)
    /\ ppc' = "onUpdate"

\* for (const update of result.result): offset = update.update_id + 1, then
\* onUpdate(update) is called and awaited.
HandUpdate(update) ==
    /\ offset' = update.update_id + 1
    /\ handed' = Append(handed, update)
    /\ lastHanded' = update.update_id
    /\ proc' = [proc EXCEPT ![PollSlot] = ProcAfterStart(update, account)]
    /\ status' = StatusAfterStart(status, update, account)
    /\ ppc' = "onUpdate"

\* await serverChanBotGetUpdates(...) throws: a network failure, or a body
\* that is not JSON.  The catch block logs and starts the backoff sleep.
FetchThrows ==
    /\ ppc = "fetch"
    /\ ppc' = "sleep"
    /\ lastFetch' = "threw"
    /\ pollLogged' = TRUE
    /\ slept' = FALSE
    /\ UNCHANGED <<lifeVars, regVars, reqVars, status, proc,
                   offset, batch, idx, handed, lastHanded, fetches, fetchBudget, batchBudget, deliverBudget, fetchOffset>>

\* Mutant: a result that is not ok ends the loop.
FetchNotOkBreaks ==
    /\ ppc = "fetch"
    /\ ppc' = "done"
    /\ lastFetch' = "not ok"
    /\ pollLogged' = FALSE
    /\ slept' = FALSE
    /\ UNCHANGED <<lifeVars, regVars, reqVars, status, proc,
                   offset, batch, idx, handed, lastHanded, fetches, fetchBudget,
                   batchBudget, deliverBudget, fetchOffset>>

\* The fetch resolves with {ok: false, result: [], error}: a non-2xx response.
FetchNotOk ==
    /\ ppc = "fetch"
    /\ ppc' = "top"
    /\ lastFetch' = "not ok"
    /\ pollLogged' = FALSE
    /\ slept' = FALSE
    /\ UNCHANGED <<lifeVars, regVars, reqVars, status, proc,
                   offset, batch, idx, handed, lastHanded, fetches, fetchBudget, batchBudget, deliverBudget, fetchOffset>>

\* The fetch resolves with {ok: true, result}, result being one of these lists.
FetchResult(results) ==
    /\ ppc = "fetch"
    /\ \E result \in results :
           /\ Len(result) <= batchBudget
           /\ batch' = result
           /\ IF Len(result) > 0
              THEN /\ HandUpdate(result[1])
                   /\ idx' = 1
                   /\ lastFetch' = "updates"
              ELSE /\ ppc' = "top"
                   /\ idx' = 0
                   /\ lastFetch' = "empty"
                   /\ UNCHANGED <<offset, handed, lastHanded, proc, status>>
    /\ pollLogged' = FALSE
    /\ slept' = FALSE
    /\ UNCHANGED <<lifeVars, regVars, reqVars, fetches, fetchBudget, batchBudget, deliverBudget, fetchOffset>>

FetchOk == FetchResult(Batches)

\* The same, for one update whose message carries any combination of the three
\* chat identifiers.
IdentifiedMessages ==
    {[present |-> TRUE, message_id |-> 1, chat |-> c, chat_id |-> d,
      from |-> f, text |-> <<"hi">>] :
        c \in {NoNum, 0, 7}, d \in {NoNum, 42}, f \in {NoNum, 5}}

IdentifiedBatches == {<<[update_id |-> 0, message |-> m]>> : m \in IdentifiedMessages}

\* The same, for a server that holds the updates with ids 0 .. StreamLen - 1
\* and answers a fetch with exactly those whose id is not below the offset.
StreamLen == 3

StreamBatches(off) ==
    LET n == IF off >= StreamLen THEN 0 ELSE StreamLen - off
    IN  {[i \in 1..n |-> [update_id |-> off + i - 1, message |-> ms[i]]] :
            ms \in [1..n -> Messages]}

\* Mutant: when onUpdate rejects, the cursor goes back to the update it was
\* called with.
OnUpdateSettledRewinds ==
    /\ ppc = "onUpdate"
    /\ proc[PollSlot].state \in {"done", "rejected"}
    /\ IF proc[PollSlot].state = "rejected"
       THEN /\ ppc' = "sleep"
            /\ pollLogged' = TRUE
            /\ proc' = [proc EXCEPT ![PollSlot] = IdleProc]
            /\ batch' = <<>>
            /\ idx' = 0
            /\ handed' = <<>>
            /\ offset' = lastHanded
            /\ UNCHANGED <<lastHanded, status>>
       ELSE IF idx < Len(batch)
       THEN /\ HandUpdate(batch[idx + 1])
            /\ idx' = idx + 1
            /\ UNCHANGED <<pollLogged, batch>>
       ELSE /\ ppc' = "top"
            /\ proc' = [proc EXCEPT ![PollSlot] = IdleProc]
            /\ batch' = <<>>
            /\ idx' = 0
            /\ handed' = <<>>
            /\ UNCHANGED <<offset, lastHanded, status, pollLogged>>
    /\ UNCHANGED <<lifeVars, regVars, reqVars, fetches, fetchBudget, batchBudget, deliverBudget, fetchOffset,
                   lastFetch, slept>>

\* await onUpdate(update) settles: the next update of the batch is handed, the
\* batch is finished, or (onUpdate rejected) the catch block logs and sleeps.
\* The batch and the settled call go out of scope when the for loop is left.
OnUpdateSettled ==
    /\ ppc = "onUpdate"
    /\ proc[PollSlot].state \in {"done", "rejected"}
    /\ IF proc[PollSlot].state = "rejected"
       THEN /\ ppc' = "sleep"
            /\ pollLogged' = TRUE
            /\ proc' = [proc EXCEPT ![PollSlot] = IdleProc]
            /\ batch' = <<>>
            /\ idx' = 0
            /\ handed' = <<>>
            /\ UNCHANGED <<offset, lastHanded, status>>
       ELSE IF idx < Len(batch)
       THEN /\ HandUpdate(batch[idx + 1])
            /\ idx' = idx + 1
            /\ UNCHANGED <<pollLogged, batch>>
       ELSE /\ ppc' = "top"
            /\ proc' = [proc EXCEPT ![PollSlot] = IdleProc]
            /\ batch' = <<>>
            /\ idx' = 0
            /\ handed' = <<>>
            /\ UNCHANGED <<offset, lastHanded, status, pollLogged>>
    /\ UNCHANGED <<lifeVars, regVars, reqVars, fetches, fetchBudget, batchBudget, deliverBudget, fetchOffset,
                   lastFetch, slept>>

\* The 5000 ms timer of the catch block fires.
SleepDone ==
    /\ ppc = "sleep"
    /\ ppc' = "top"
    /\ slept' = TRUE
    /\ UNCHANGED <<lifeVars, regVars, reqVars, status, proc,
                   offset, batch, idx, handed, lastHanded, fetches, fetchBudget, batchBudget, deliverBudget,
                   fetchOffset, lastFetch, pollLogged>>

\* The delay of the timer in the catch block of the loop.
BackoffMs == 5000

\* The time the loop has spent in timers since its latest fetch ended: the loop
\* sets no timer but the one of its catch block (intervalMs is read from the
\* parameters and not used).
WaitedSinceFetch == IF slept THEN BackoffMs ELSE 0

\* ------------------------------------------------------- account lifecycle
\* status.defaultRuntime, with the fields setStatus patches.
DefaultRuntime ==
    [running |-> FALSE, lastStartAt |-> FALSE, lastError |-> "",
     bot |-> FALSE, lastInboundAt |-> FALSE, lastOutboundAt |-> FALSE]

\* The account configurations startAccount is called with.
BotTokens == {Undef, <<>>, BotToken}
PollingEnabledValues == {"unset", "true", "false"}
WebhookUrls == {Undef, <<" ">>, <<UrlOrigin, "/", "hook", "/">>, <<"hook">>}
WebhookPaths == {Undef, <<" ">>, <<"hook", "/">>}
WebhookSecrets == {Undef, <<" ">>, <<" ", "s1">>}
ChatIds == {Undef, <<"9", "9">>}

\* The hard-coded default of pollingIntervalMs.
DefaultPollingIntervalMs == 3000

AccountConfigs ==
    [botToken : BotTokens, pollingEnabled : PollingEnabledValues,
     webhookUrl : WebhookUrls, webhookPath : WebhookPaths,
     webhookSecret : WebhookSecrets, chatId : ChatIds,
     pollingIntervalMs : {DefaultPollingIntervalMs}]

\* gateway.startAccount is called: the credential check, then the probe is awaited.
StartAccount ==
    /\ lpc = "idle"
    /\ IF ~Truthy(account.config.botToken)
       THEN /\ lpc' = "threw"
            /\ thrown' = "token not configured"
       ELSE /\ lpc' = "probing"
            /\ UNCHANGED thrown
    /\ UNCHANGED <<account, aborted, abortListeners, pollVars, regVars, reqVars,
                   status, proc, cfgVars, parseCall>>

\* The target startAccount registers.
AccountTarget(acct, webhookPath) ==
    [id |-> 0, account |-> acct, botToken |-> acct.config.botToken,
     path |-> webhookPath,
     secret |-> IF Truthy(OptTrim(acct.config.webhookSecret))
                THEN OptTrim(acct.config.webhookSecret) ELSE Undef]

\* The path startAccount registers under (null: wantsWebhook is false, or no
\* path could be derived).
AccountWebhookPath(config) ==
    IF wantsWebhook(config)
    THEN resolveWebhookPath(config.webhookPath, config.webhookUrl)
    ELSE Null

\* await probeServerChanBot(...) settles (it never rejects); startAccount runs on
\* to its return or to the polling loop's first check of the signal.
ProbeDone ==
    /\ lpc = "probing"
    /\ \E probeOk \in BOOLEAN :
           status' = [status EXCEPT ![account.accountId].bot = probeOk,
                                    ![account.accountId].running = TRUE,
                                    ![account.accountId].lastStartAt = TRUE]
    /\ LET webhookPath == AccountWebhookPath(account.config)
       IN  IF wantsWebhook(account.config) /\ Truthy(webhookPath)
           THEN /\ webhookTargets' =
                       RegistryAfterRegister(webhookTargets,
                           AccountTarget(account, webhookPath), nextTargetId)
                /\ abortListeners' = abortListeners \cup
                       {[key |-> normalizeWebhookPath(webhookPath),
                         id |-> nextTargetId]}
                /\ nextTargetId' = nextTargetId + 1
           ELSE UNCHANGED <<webhookTargets, abortListeners, nextTargetId>>
    /\ IF ~shouldPoll(account.config)
       THEN /\ lpc' = "returned"
            /\ UNCHANGED <<ppc, offset>>
       ELSE /\ lpc' = "polling"
            /\ ppc' = "top"
            /\ offset' = 0
    /\ UNCHANGED <<account, thrown, aborted, closures, called, reqVars, proc, cfgVars,
                   parseCall,
                   batch, idx, handed, lastHanded, fetches, fetchBudget, batchBudget, deliverBudget, fetchOffset,
                   lastFetch, pollLogged, slept>>

\* The host fires the account's cancellation signal: the listeners attached so
\* far run, once.
Abort ==
    /\ lpc # "idle"
    /\ ~aborted
    /\ aborted' = TRUE
    /\ webhookTargets' = RunListeners(webhookTargets, abortListeners)
    /\ abortListeners' = {}
    /\ UNCHANGED <<account, lpc, thrown, nextTargetId, closures, called, pollVars,
                   reqVars, status, proc, cfgVars, parseCall>>

\* Mutant: the catch block records the message and leaves running as it was.
StatusAfterMonitorRejectedStillRunning(st, accountId, message) ==
    [st EXCEPT ![accountId].lastError = message]

\* The catch block around the awaited loop: setStatus({accountId, running: false,
\* lastError: the error's message}).
StatusAfterMonitorRejected(st, accountId, message) ==
    [st EXCEPT ![accountId].running = FALSE,
               ![accountId].lastError = message]

\* await monitorServerChanBotPolling(...) settles: startAccount returns, or
\* records the error and rethrows it.
MonitorSettled ==
    /\ lpc = "polling"
    /\ ppc \in {"done", "rejected"}
    /\ IF ppc = "done"
       THEN /\ lpc' = "returned"
            /\ UNCHANGED <<thrown, status>>
       ELSE /\ lpc' = "threw"
            /\ thrown' = "polling error"
            /\ status' = StatusAfterMonitorRejected(status, account.accountId,
                                                    "polling error")
    /\ UNCHANGED <<account, aborted, abortListeners, pollVars, regVars, reqVars, proc,
                   cfgVars, parseCall>>

\* --------------------------------------------------------- webhook intake
\* A header's value: absent, a string, or an array of strings.
AbsentHeader == [array |-> FALSE, items |-> <<>>]

StringHeader(v) == [array |-> FALSE, items |-> <<v>>]

ArrayHeader(vs) == [array |-> TRUE, items |-> vs]

\* headers[name], as a string value or undefined; of an array, its first item.
HeaderValue(h) ==
    IF h.items = <<>> THEN Undef ELSE h.items[1]

\* Mutant: the header is only checked for presence, not compared.
verifyWebhookSecretPresent(headers, expectedSecret) ==
    HeaderValue(IF headers.lower # AbsentHeader THEN headers.lower
                ELSE headers.mixed) # Undef

verifyWebhookSecret(headers, expectedSecret) ==
    LET secret == IF headers.lower # AbsentHeader THEN headers.lower
                  ELSE headers.mixed
        secretValue == HeaderValue(secret)
    IN  secretValue = expectedSecret

\* No target: selectWebhookTarget's null.
NoTarget ==
    [id |-> 0, account |-> [accountId |-> "", config |-> <<>>],
     botToken |-> Undef, path |-> <<>>, secret |-> Undef]

\* targets.find(...): the first target whose secret the header matches.
RECURSIVE FindSecretTarget(_, _)
FindSecretTarget(targets, headers) ==
    IF targets = <<>> THEN NoTarget
    ELSE IF Truthy(Head(targets).secret)
            /\ verifyWebhookSecret(headers, Head(targets).secret)
         THEN Head(targets)
         ELSE FindSecretTarget(Tail(targets), headers)

\* targets.filter((target) => !target.secret)
RECURSIVE WithoutSecret(_)
WithoutSecret(targets) ==
    IF targets = <<>> THEN <<>>
    ELSE IF ~Truthy(Head(targets).secret)
         THEN <<Head(targets)>> \o WithoutSecret(Tail(targets))
         ELSE WithoutSecret(Tail(targets))

\* Mutant: of the targets whose secret the header matches, the latest
\* registered is taken.
selectWebhookTargetLastMatch(targets, headers) ==
    IF Len(targets) = 1
    THEN LET only == targets[1]
         IN  IF ~Truthy(only.secret) THEN only
             ELSE IF verifyWebhookSecret(headers, only.secret) THEN only
             ELSE NoTarget
    ELSE LET reversed == [i \in 1..Len(targets) |-> targets[Len(targets) + 1 - i]]
             secretTarget == FindSecretTarget(reversed, headers)
             withoutSecret == WithoutSecret(targets)
         IN  IF secretTarget # NoTarget THEN secretTarget
             ELSE IF Len(withoutSecret) = 1 THEN withoutSecret[1]
             ELSE NoTarget

\* Mutant: a lone target without a secret refuses a request that carries one.
selectWebhookTargetNoHeader(targets, headers) ==
    IF Len(targets) = 1
    THEN LET only == targets[1]
         IN  IF ~Truthy(only.secret)
             THEN IF headers.lower = AbsentHeader /\ headers.mixed = AbsentHeader
                  THEN only ELSE NoTarget
             ELSE IF verifyWebhookSecret(headers, only.secret) THEN only
             ELSE NoTarget
    ELSE LET secretTarget == FindSecretTarget(targets, headers)
             withoutSecret == WithoutSecret(targets)
         IN  IF secretTarget # NoTarget THEN secretTarget
             ELSE IF Len(withoutSecret) = 1 THEN withoutSecret[1]
             ELSE NoTarget

\* Mutant: the fallback takes the first target without a secret, however many
\* there are.
selectWebhookTargetFirstOpen(targets, headers) ==
    IF Len(targets) = 1
    THEN LET only == targets[1]
         IN  IF ~Truthy(only.secret) THEN only
             ELSE IF verifyWebhookSecret(headers, only.secret) THEN only
             ELSE NoTarget
    ELSE LET secretTarget == FindSecretTarget(targets, headers)
             withoutSecret == WithoutSecret(targets)
         IN  IF secretTarget # NoTarget THEN secretTarget
             ELSE IF Len(withoutSecret) >= 1 THEN withoutSecret[1]
             ELSE NoTarget

\* Mutant: a path's only target is selected without verifying its secret.
selectWebhookTargetLoneUnchecked(targets, headers) ==
    IF Len(targets) = 1 THEN targets[1]
    ELSE LET secretTarget == FindSecretTarget(targets, headers)
             withoutSecret == WithoutSecret(targets)
         IN  IF secretTarget # NoTarget THEN secretTarget
             ELSE IF Len(withoutSecret) = 1 THEN withoutSecret[1]
             ELSE NoTarget

selectWebhookTarget(targets, headers) ==
    IF Len(targets) = 1
    THEN LET only == targets[1]
         IN  IF ~Truthy(only.secret) THEN only
             ELSE IF verifyWebhookSecret(headers, only.secret) THEN only
             ELSE NoTarget
    ELSE LET secretTarget == FindSecretTarget(targets, headers)
             withoutSecret == WithoutSecret(targets)
         IN  IF secretTarget # NoTarget THEN secretTarget
             ELSE IF Len(withoutSecret) = 1 THEN withoutSecret[1]
             ELSE NoTarget

\* The body ceiling handleServerChanBotWebhookRequest passes to readJsonBody.
WebhookMaxBytes == 1048576

\* A JSON value of a webhook body, by its type.
JUndefined == [type |-> "undefined", n |-> 0, s |-> <<>>]
JNumber(n) == [type |-> "number", n |-> n, s |-> <<>>]
JString(str) == [type |-> "string", n |-> 0, s |-> str]
JTrue == [type |-> "true", n |-> 0, s |-> <<>>]
JFalse == [type |-> "false", n |-> 0, s |-> <<>>]
JNull == [type |-> "null", n |-> 0, s |-> <<>>]

\* The number a field holds, absent when it is undefined.
NumberOr(j) == IF j.type = "number" THEN j.n ELSE NoNum

\* parseWebhookPayload: the update, or null (present is FALSE).
NullUpdate == [update_id |-> NoNum, message |-> NoMessage]

\* A read of a property of null: a TypeError is thrown.
ThrownUpdate == [update_id |-> NaN, message |-> NoMessage]

\* Mutant: null passes the typeof checks, and its properties are read.
parseWebhookPayloadTypeofOnly(body) ==
    IF body.type = "null" THEN ThrownUpdate
    ELSE IF body.type # "object" THEN NullUpdate
    ELSE IF body.ok # JTrue THEN NullUpdate
    ELSE IF body.update_id.type # "number" THEN NullUpdate
    ELSE IF body.message.type = "null" THEN ThrownUpdate
    ELSE IF body.message.type # "object" THEN NullUpdate
    ELSE LET msg == body.message
             chatId == IF msg.chat_id.type = "number" THEN msg.chat_id
                       ELSE IF msg.chat.type = "object" THEN msg.chat.id
                       ELSE JUndefined
         IN  IF msg.message_id.type # "number" \/ chatId.type # "number"
                \/ msg.text.type # "string"
             THEN NullUpdate
             ELSE [update_id |-> body.update_id.n,
                   message |->
                       [present |-> TRUE,
                        message_id |-> msg.message_id.n,
                        chat_id |-> chatId.n,
                        chat |-> IF msg.chat.type = "object"
                                 THEN NumberOr(msg.chat.id) ELSE NoNum,
                        from |-> NoNum,
                        text |-> msg.text.s]]

parseWebhookPayload(body) ==
    IF body.type # "object" THEN NullUpdate
    ELSE IF body.ok # JTrue THEN NullUpdate
    ELSE IF body.update_id.type # "number" \/ body.message.type # "object"
    THEN NullUpdate
    ELSE LET msg == body.message
             chatId == IF msg.chat_id.type = "number" THEN msg.chat_id
                       ELSE IF msg.chat.type = "object" THEN msg.chat.id
                       ELSE JUndefined
         IN  IF msg.message_id.type # "number" \/ chatId.type # "number"
                \/ msg.text.type # "string"
             THEN NullUpdate
             ELSE [update_id |-> body.update_id.n,
                   message |->
                       [present |-> TRUE,
                        message_id |-> msg.message_id.n,
                        chat_id |-> chatId.n,
                        chat |-> IF msg.chat.type = "object"
                                 THEN NumberOr(msg.chat.id) ELSE NoNum,
                        from |-> NoNum,
                        text |-> msg.text.s]]

\* The bodies a webhook request may carry once read to its end: blank text,
\* text that is not JSON, or a JSON value.
JMessage(chat_id, chat, text) ==
    [type |-> "object", message_id |-> JNumber(1), chat_id |-> chat_id,
     chat |-> chat, text |-> text]

JChat(id) == [type |-> "object", id |-> id]

NoChat == [type |-> "undefined", id |-> JUndefined]

JPayload(ok, update_id, message) ==
    [type |-> "object", ok |-> ok, update_id |-> update_id, message |-> message]

JsonBodies ==
    { JPayload(JTrue, JNumber(5), JMessage(JNumber(42), NoChat, JString(<<"hi">>))),
      JPayload(JTrue, JNumber(5), JMessage(JUndefined, JChat(JNumber(7)), JString(<<"hi">>))),
      JPayload(JTrue, JNumber(5), JMessage(JUndefined, NoChat, JString(<<"hi">>))),
      JPayload(JFalse, JNumber(5), JMessage(JNumber(42), NoChat, JString(<<"hi">>))) }

\* The JSON values parseWebhookPayload may be called with: any type in any
\* field.
AnyChats ==
    {NoChat, [type |-> "null", id |-> JUndefined], JChat(JUndefined),
     JChat(JNumber(7)), JChat(JString(<<"7">>))}

AnyMessages ==
    {JNull, JUndefined, JString(<<"hi">>)}
    \cup [type : {"object"},
          message_id : {JUndefined, JNumber(0), JNumber(1), JString(<<"1">>)},
          chat_id : {JUndefined, JNull, JNumber(0), JNumber(42), JString(<<"4", "2">>)},
          chat : AnyChats,
          text : {JUndefined, JNull, JNumber(1), JString(<<>>), JString(<<"hi">>)}]

AnyBodies ==
    {JNull, JUndefined, JNumber(1), JString(<<"hi">>)}
    \cup [type : {"object"},
          ok : {JUndefined, JTrue, JFalse, JString(<<"true">>), JNumber(1)},
          update_id : {JUndefined, JNull, JNumber(0), JNumber(5), JString(<<"5">>)},
          message : AnyMessages]

\* parseWebhookPayload(body) is called, once.
ParsePayload ==
    /\ parseCall = <<JUndefined, NullUpdate>>
    /\ \E body \in AnyBodies : parseCall' = <<body, parseWebhookPayload(body)>>
    /\ UNCHANGED <<account, lpc, thrown, aborted, abortListeners, cfgVars,
                   pollVars, regVars, reqVars, status, proc>>

\* The requests the HTTP handler is called with.
RequestIds == {1}

\* The request as it arrives, before anything is written.
NewReq(no, method, headers) ==
    [pc |-> "received", no |-> no, method |-> method, headers |-> headers,
     path |-> <<>>, targets |-> <<>>, selected |-> NoTarget, total |-> 0, chunks |-> 0,
     handled |-> FALSE, statusCode |-> 0, allow |-> "", text |-> "",
     responses |-> 0, parsed |-> FALSE]

\* res.statusCode = code; res.end(text); return true
Respond(r, code, text) ==
    [r EXCEPT !.pc = "responded", !.handled = TRUE, !.statusCode = code,
              !.text = text, !.responses = @ + 1]

\* Mutant: the secret is verified before the method is looked at.
ReqAfterReceiveAuthFirst(r, path, registry) ==
    LET targets == MapGet(registry, normalizeWebhookPath(path))
        selected == selectWebhookTarget(targets, r.headers)
        q == [r EXCEPT !.path = path]
    IN  IF Len(targets) = 0 THEN [q EXCEPT !.pc = "not handled"]
        ELSE IF selected = NoTarget
        THEN [Respond(q, 401, "unauthorized") EXCEPT !.targets = targets]
        ELSE IF q.method # "POST"
        THEN [Respond(q, 405, "Method Not Allowed") EXCEPT
                  !.allow = "POST", !.targets = targets]
        ELSE [q EXCEPT !.pc = "reading", !.targets = targets, !.selected = selected]

\* handleServerChanBotWebhookRequest from its call to its await of readJsonBody.
ReqAfterReceive(r, path, registry) ==
    LET targets == MapGet(registry, normalizeWebhookPath(path))
        selected == selectWebhookTarget(targets, r.headers)
        q == [r EXCEPT !.path = path]
    IN  IF Len(targets) = 0 THEN [q EXCEPT !.pc = "not handled"]
        ELSE IF q.method # "POST"
        THEN [Respond(q, 405, "Method Not Allowed") EXCEPT
                  !.allow = "POST", !.targets = targets]
        ELSE IF selected = NoTarget
        THEN [Respond(q, 401, "unauthorized") EXCEPT !.targets = targets]
        ELSE [q EXCEPT !.pc = "reading", !.targets = targets, !.selected = selected]

RequestPaths == {<<"/", "hook", "/">>, <<"/", "other">>}
Methods == {"POST", "GET"}
RequestHeaders ==
    {[lower |-> AbsentHeader, mixed |-> AbsentHeader]}
    \cup {[lower |-> StringHeader(v), mixed |-> AbsentHeader] :
            v \in {<<"s1">>, <<"s2">>, <<"wrong">>}}
    \cup {[lower |-> AbsentHeader, mixed |-> StringHeader(<<"s1">>)],
          [lower |-> ArrayHeader(<<<<"s2">>, <<"s1">>>>), mixed |-> AbsentHeader]}

\* A request for one of these URL paths arrives at the HTTP handler.
ReceiveOn(paths) ==
    /\ requests + 1 \in RequestIds
    /\ requests' = requests + 1
    /\ \E path \in paths, method \in Methods, headers \in RequestHeaders :
           req' = [req EXCEPT ![requests + 1] =
                      ReqAfterReceive(NewReq(requests + 1, method, headers), path,
                                      webhookTargets)]
    /\ UNCHANGED <<lifeVars, pollVars, regVars, status, proc>>

Receive == ReceiveOn(RequestPaths)

ChunkSizes == {1, WebhookMaxBytes - 1, WebhookMaxBytes}

\* Mutant: the ceiling itself is already too large.
BodyDataCeilingExcluded(k) ==
    /\ req[k].pc = "reading"
    /\ req[k].chunks < MaxChunks
    /\ \E n \in ChunkSizes :
           req' = [req EXCEPT ![k] =
                      IF req[k].total + n >= WebhookMaxBytes
                      THEN [Respond(req[k], 413, "payload too large") EXCEPT
                                !.total = @ + n, !.chunks = @ + 1]
                      ELSE [req[k] EXCEPT !.total = @ + n, !.chunks = @ + 1]]
    /\ UNCHANGED <<lifeVars, pollVars, regVars, requests, status, proc>>

\* Mutant: over the ceiling the read resolves and the handler answers 413, but
\* the listeners stay attached and a later event resolves the read again.
BodyDataKeepsListening(k) ==
    /\ req[k].pc = "reading"
    /\ req[k].chunks < MaxChunks
    /\ \E n \in ChunkSizes :
           req' = [req EXCEPT ![k] =
                      IF req[k].total + n > WebhookMaxBytes
                      THEN [Respond(req[k], 413, "payload too large") EXCEPT
                                !.total = @ + n, !.chunks = @ + 1, !.pc = "reading"]
                      ELSE [req[k] EXCEPT !.total = @ + n, !.chunks = @ + 1]]
    /\ UNCHANGED <<lifeVars, pollVars, regVars, requests, status, proc>>

\* readJsonBody: a "data" event.  Over the ceiling the read resolves with
\* "payload too large" and the handler answers 413.
BodyData(k) ==
    /\ req[k].pc = "reading"
    /\ req[k].chunks < MaxChunks
    /\ \E n \in ChunkSizes :
           req' = [req EXCEPT ![k] =
                      IF req[k].total + n > WebhookMaxBytes
                      THEN [Respond(req[k], 413, "payload too large") EXCEPT
                                !.total = @ + n, !.chunks = @ + 1]
                      ELSE [req[k] EXCEPT !.total = @ + n, !.chunks = @ + 1]]
    /\ UNCHANGED <<lifeVars, pollVars, regVars, requests, status, proc>>

\* readJsonBody: the "error" event; the handler answers 400 with the error.
BodyError(k) ==
    /\ req[k].pc = "reading"
    /\ req' = [req EXCEPT ![k] = Respond(req[k], 400, "stream error")]
    /\ UNCHANGED <<lifeVars, pollVars, regVars, requests, status, proc>>

\* readJsonBody: the "end" event with a body that is blank ("empty payload")
\* or not JSON (the parser's message).
BodyEndInvalid(k) ==
    /\ req[k].pc = "reading"
    /\ \E text \in {"empty payload", "JSON syntax error"} :
           /\ req[k].total = 0 => text = "empty payload"
           /\ req' = [req EXCEPT ![k] = Respond(req[k], 400, text)]
    /\ UNCHANGED <<lifeVars, pollVars, regVars, requests, status, proc>>

\* Mutant: the handler answers only once the call has settled, with its outcome.
AckStatusAwaited(p) ==
    IF p.state = "done" /\ p.log = {} THEN 200 ELSE 500

\* The status the handler answers an accepted update with; it does not wait
\* for the processServerChanBotUpdate call p it has just made.
AckStatus(p) == 200

\* readJsonBody: the "end" event with a JSON body; the handler parses it and,
\* for an update, calls processServerChanBotUpdate without awaiting it.
BodyEndJson(k) ==
    /\ req[k].pc = "reading"
    /\ req[k].total > 0
    /\ \E body \in JsonBodies :
           LET update == parseWebhookPayload(body)
               selected == req[k].selected
               started == ProcAfterStart(update, selected.account)
           IN  IF ~update.message.present
               THEN /\ req' = [req EXCEPT ![k] =
                          [Respond(req[k], 400, "invalid payload") EXCEPT
                               !.parsed = TRUE]]
                    /\ UNCHANGED <<status, proc>>
               ELSE /\ req' = [req EXCEPT ![k] =
                          [Respond(req[k], AckStatus(started), "ok") EXCEPT
                               !.parsed = TRUE]]
                    /\ proc' = [proc EXCEPT ![k] = started]
                    /\ status' = StatusAfterStart(
                           [status EXCEPT
                               ![selected.account.accountId].lastInboundAt = TRUE],
                           update, selected.account)
    /\ UNCHANGED <<lifeVars, pollVars, regVars, requests>>

\* ------------------------------------------------- registry, as an interface
TargetPaths == {<<"hook">>, <<"/", "hook", "/">>}
TargetSecrets == {Undef, <<"s1">>, <<"s2">>}

\* The account of the k-th registration.
WebhookAccount(k) ==
    [accountId |-> IF k % 2 = 1 THEN "default" ELSE "work",
     config |-> [botToken |-> BotToken, pollingEnabled |-> "false",
                 webhookUrl |-> Undef, webhookPath |-> Undef,
                 webhookSecret |-> Undef,
                 chatId |-> IF k % 2 = 1 THEN Undef ELSE <<"9", "9">>,
                 pollingIntervalMs |-> DefaultPollingIntervalMs]]

\* registerServerChanBotWebhookTarget(target), for a target with one of these
\* paths and the account of one of these registrations.
RegisterTarget(paths, accounts) ==
    /\ nextTargetId <= MaxTargets
    /\ \E path \in paths, secret \in TargetSecrets, a \in accounts :
           LET target == [id |-> 0, account |-> WebhookAccount(a),
                          botToken |-> BotToken, path |-> path, secret |-> secret]
           IN  /\ webhookTargets' =
                      RegistryAfterRegister(webhookTargets, target, nextTargetId)
               /\ closures' = closures \cup
                      {[id |-> nextTargetId, key |-> normalizeWebhookPath(path)]}
    /\ nextTargetId' = nextTargetId + 1
    /\ UNCHANGED <<lifeVars, pollVars, reqVars, status, proc, called>>

\* Each account registers its target, all on one path.
Register == RegisterTarget(TargetPaths, {nextTargetId})

\* Targets are registered on several paths; the same target may be registered
\* more than once.
OtherTargetPaths == {<<"/", "other">>}

RegisterAny == RegisterTarget(TargetPaths \cup OtherTargetPaths, {1, 2})

\* Mutant: the closure removes its target from the path's list in place, so a
\* request holding that list sees it shrink.
UnregisterInPlace ==
    /\ \E c \in closures :
           /\ webhookTargets' = RegistryAfterUnregister(webhookTargets, c.key, c.id)
           /\ called' = called \cup {c.id}
           /\ req' = [k \in DOMAIN req |->
                         IF req[k].targets = MapGet(webhookTargets, c.key)
                         THEN [req[k] EXCEPT !.targets = FilterNot(@, c.id)]
                         ELSE req[k]]
    /\ UNCHANGED <<lifeVars, pollVars, requests, status, proc, nextTargetId, closures>>

\* An unregister closure is invoked, for the first time or again.
Unregister ==
    /\ \E c \in closures :
           /\ webhookTargets' = RegistryAfterUnregister(webhookTargets, c.key, c.id)
           /\ called' = called \cup {c.id}
    /\ UNCHANGED <<lifeVars, pollVars, reqVars, status, proc, nextTargetId, closures>>

\* ------------------------------------------------------ account resolver
\* DEFAULT_ACCOUNT_ID
DefaultAccountId == <<"default">>

\* The fields a section or an account entry may set; these are all unset.
NoFields ==
    [botToken |-> Undef, chatId |-> Undef, enabled |-> "unset",
     pollingEnabled |-> "unset", pollingIntervalMs |-> NoNum]

\* a ?? b, for strings, for booleans and for numbers.
Coalesce(a, b) == IF a # Undef /\ a # Null THEN a ELSE b

CoalesceFlag(a, b) == IF a # "unset" THEN a ELSE b

CoalesceNum(a, b) == IF a # NoNum THEN a ELSE b

\* The keys of section.accounts, in insertion order (none without the object).
AccountKeys(c) == IF c.hasSection /\ c.hasAccounts THEN c.keys ELSE <<>>

SeqHas(list, x) == \E i \in 1..Len(list) : list[i] = x

\* configObj?.channels?.["serverchan-bot"] ?? {}
SectionOf(c) == IF c.hasSection THEN c.top ELSE NoFields

\* accounts?.[resolvedAccountId] ?? {}
AccountConfigOf(c, id) ==
    IF SeqHas(AccountKeys(c), id) THEN c.override ELSE NoFields

resolveServerChanBotAccount(c, accountId) ==
    LET resolvedAccountId ==
            IF Truthy(OptTrim(accountId)) THEN Trim(accountId)
            ELSE DefaultAccountId
        section == SectionOf(c)
        accountConfig == AccountConfigOf(c, resolvedAccountId)
        chat == Trim(Coalesce(Coalesce(accountConfig.chatId, section.chatId), <<>>))
    IN  [accountId |-> resolvedAccountId,
         enabled |-> CoalesceFlag(CoalesceFlag(accountConfig.enabled,
                                               section.enabled), "true"),
         tokenSource |->
             IF Truthy(accountConfig.botToken) THEN "config"
             ELSE IF Truthy(section.botToken) THEN "config"
             ELSE IF Truthy(c.env) THEN "env"
             ELSE "none",
         config |->
             [botToken |-> Coalesce(Coalesce(accountConfig.botToken,
                                             section.botToken), c.env),
              chatId |-> IF Truthy(chat) THEN chat ELSE Undef,
              pollingEnabled |-> CoalesceFlag(accountConfig.pollingEnabled,
                                              section.pollingEnabled),
              pollingIntervalMs |->
                  CoalesceNum(CoalesceNum(accountConfig.pollingIntervalMs,
                                          section.pollingIntervalMs),
                              DefaultPollingIntervalMs)]]

\* Object.keys(accounts).filter((id) => id.trim())
RECURSIVE NonBlankKeys(_)
NonBlankKeys(keys) ==
    IF keys = <<>> THEN <<>>
    ELSE IF Truthy(Trim(Head(keys)))
         THEN <<Head(keys)>> \o NonBlankKeys(Tail(keys))
         ELSE NonBlankKeys(Tail(keys))

listServerChanBotAccountIds(c) ==
    IF ~c.hasSection THEN <<DefaultAccountId>>
    ELSE IF ~c.hasAccounts THEN <<DefaultAccountId>>
    ELSE LET ids == NonBlankKeys(c.keys)
         IN  IF Len(ids) = 0 THEN <<DefaultAccountId>>
             ELSE IF ~SeqHas(ids, DefaultAccountId)
             THEN <<DefaultAccountId>> \o ids
             ELSE ids

\* The configurations and environments the resolver is called with.
KeyNames == {DefaultAccountId, <<"work">>, <<" ">>}

KeyLists ==
    {<<>>} \cup {<<a>> : a \in KeyNames}
    \cup {k \in KeyNames \X KeyNames : k[1] # k[2]}

OverrideFields ==
    [botToken : {Undef, <<>>, <<"ta">>}, chatId : {Undef, <<" ", "7", " ">>},
     enabled : {"unset", "false"}, pollingEnabled : {"unset", "false"},
     pollingIntervalMs : {NoNum, 1000}]

SectionFields ==
    [botToken : {Undef, <<"ts">>}, chatId : {Undef, <<" ">>},
     enabled : {"unset"}, pollingEnabled : {"unset", "true"},
     pollingIntervalMs : {NoNum, 0}]

EnvTokens == {Undef, <<>>, <<"te">>}

Configs ==
    {c \in [hasSection : BOOLEAN, hasAccounts : BOOLEAN, keys : KeyLists,
            top : SectionFields, override : OverrideFields, env : EnvTokens] :
        /\ ~c.hasSection => (~c.hasAccounts /\ c.top = NoFields)
        /\ ~c.hasAccounts => (c.keys = <<>> /\ c.override = NoFields)
        /\ c.keys = <<>> => c.override = NoFields}

RequestedIds == {Undef, Null, <<" ">>, <<"work">>, <<" ", "work">>}

\* Nothing resolved yet.
Unresolved ==
    [accountId |-> <<>>, enabled |-> "unset", tokenSource |-> "",
     config |-> NoFields]

NoConfig ==
    [hasSection |-> FALSE, hasAccounts |-> FALSE, keys |-> <<>>,
     top |-> NoFields, override |-> NoFields, env |-> Undef]

\* The host resolves an account of the configuration.
ResolveAccount ==
    /\ \E accountId \in RequestedIds :
           resolved' = <<accountId, resolveServerChanBotAccount(cfg, accountId)>>
    /\ UNCHANGED <<account, lpc, thrown, aborted, abortListeners, cfg, listed,
                   parseCall, pollVars, regVars, reqVars, status, proc>>

\* The host lists the accounts of the configuration.
ListAccountIds ==
    /\ listed' = listServerChanBotAccountIds(cfg)
    /\ UNCHANGED <<account, lpc, thrown, aborted, abortListeners, cfg, resolved,
                   parseCall, pollVars, regVars, reqVars, status, proc>>

\* ------------------------------------------------------------------- specs
Slots == {PollSlot} \cup (RequestIds)

\* A request not yet received.
IdleReq ==
    [NewReq(0, "POST", [lower |-> AbsentHeader, mixed |-> AbsentHeader])
        EXCEPT !.pc = "none"]

InitCommon ==
    /\ lpc = "idle"
    /\ thrown = ""
    /\ aborted = FALSE
    /\ abortListeners = {}
    /\ status = [a \in AccountIds |-> DefaultRuntime]
    /\ webhookTargets = EmptyMap
    /\ nextTargetId = 1
    /\ closures = {}
    /\ called = {}
    /\ ppc = "idle"
    /\ offset = 0
    /\ batch = <<>>
    /\ idx = 0
    /\ handed = <<>>
    /\ lastHanded = NoNum
    /\ fetches = 0
    /\ fetchOffset = 0
    /\ lastFetch = "none"
    /\ pollLogged = FALSE
    /\ slept = FALSE
    /\ proc = [s \in Slots |-> IdleProc]
    /\ req = [k \in RequestIds |-> IdleReq]
    /\ requests = 0
    /\ resolved = <<Undef, Unresolved>>
    /\ listed = <<>>
    /\ parseCall = <<JUndefined, NullUpdate>>

\* One account's lifecycle, for every configuration: the mode it starts in,
\* what it registers and what the cancellation signal undoes.
Init ==
    /\ account \in [accountId : {"default"}, config : AccountConfigs]
    /\ fetchBudget = 1
    /\ batchBudget = 1
    /\ deliverBudget = MaxDeliver
    /\ cfg = NoConfig
    /\ InitCommon

Next ==
    \/ StartAccount
    \/ ProbeDone
    \/ Abort
    \/ MonitorSettled
    \/ LoopTop
    \/ FetchThrows
    \/ FetchNotOk
    \/ FetchOk
    \/ OnUpdateSettled
    \/ SleepDone
    \/ Deliver(PollSlot)
    \/ SendDone(PollSlot)
    \/ OnError(PollSlot)
    \/ DispatchReturn(PollSlot)
    \/ DispatchThrow(PollSlot)

Spec == Init /\ [][Next]_vars

\* The polling loop of an account started in polling mode.
PollingConfigs ==
    {c \in AccountConfigs :
        /\ c.botToken = BotToken
        /\ c.pollingEnabled = "true"
        /\ c.webhookUrl = Undef /\ c.webhookPath = Undef /\ c.webhookSecret = Undef}

PollInit ==
    /\ account \in [accountId : {"default"}, config : PollingConfigs]
    /\ fetchBudget = MaxFetches
    /\ batchBudget = MaxBatch
    /\ deliverBudget = 1
    /\ cfg = NoConfig
    /\ InitCommon

PollSpec == PollInit /\ [][Next]_vars

\* The update processor, called by the polling loop with updates whose messages
\* carry any combination of the three chat identifiers.
ProcessorInit ==
    /\ account \in [accountId : {"default"}, config : PollingConfigs]
    /\ fetchBudget = 1
    /\ batchBudget = 1
    /\ deliverBudget = 1
    /\ cfg = NoConfig
    /\ InitCommon

ProcessorNext ==
    \/ StartAccount
    \/ ProbeDone
    \/ Abort
    \/ MonitorSettled
    \/ LoopTop
    \/ FetchThrows
    \/ FetchNotOk
    \/ FetchResult(IdentifiedBatches)
    \/ OnUpdateSettled
    \/ SleepDone
    \/ Deliver(PollSlot)
    \/ SendDone(PollSlot)
    \/ OnError(PollSlot)
    \/ DispatchReturn(PollSlot)
    \/ DispatchThrow(PollSlot)

ProcessorSpec == ProcessorInit /\ [][ProcessorNext]_vars

\* The polling loop against a server that answers with exactly the updates not
\* below the offset.
StreamInit ==
    /\ account \in [accountId : {"default"}, config : PollingConfigs]
    /\ fetchBudget = MaxFetches
    /\ batchBudget = StreamLen
    /\ deliverBudget = 0
    /\ cfg = NoConfig
    /\ InitCommon

StreamNext ==
    \/ StartAccount
    \/ ProbeDone
    \/ Abort
    \/ MonitorSettled
    \/ LoopTop
    \/ FetchThrows
    \/ FetchNotOk
    \/ FetchResult(StreamBatches(fetchOffset))
    \/ OnUpdateSettled
    \/ SleepDone
    \/ OnError(PollSlot)
    \/ DispatchReturn(PollSlot)
    \/ DispatchThrow(PollSlot)

StreamSpec == StreamInit /\ [][StreamNext]_vars

\* The polling loop of accounts configured with different polling intervals.
PollingIntervals == {1000, DefaultPollingIntervalMs}

IntervalInit ==
    /\ account \in [accountId : {"default"},
                    config : {[c EXCEPT !.pollingIntervalMs = ms] :
                                  c \in PollingConfigs, ms \in PollingIntervals}]
    /\ fetchBudget = MaxFetches
    /\ batchBudget = 1
    /\ deliverBudget = 1
    /\ cfg = NoConfig
    /\ InitCommon

IntervalSpec == IntervalInit /\ [][Next]_vars

\* The webhook registry and the HTTP handler, with targets registered and
\* unregistered through the exported interface.
WebhookInit ==
    /\ account = WebhookAccount(1)
    /\ fetchBudget = 0
    /\ batchBudget = 0
    /\ deliverBudget = 1
    /\ cfg = NoConfig
    /\ InitCommon

WebhookNext ==
    \/ Register
    \/ Unregister
    \/ Receive
    \/ \E k \in RequestIds : BodyData(k)
    \/ \E k \in RequestIds : BodyError(k)
    \/ \E k \in RequestIds : BodyEndInvalid(k)
    \/ \E k \in RequestIds : BodyEndJson(k)
    \/ \E s \in RequestIds : Deliver(s)
    \/ \E s \in RequestIds : SendDone(s)
    \/ \E s \in RequestIds : OnError(s)
    \/ \E s \in RequestIds : DispatchReturn(s)
    \/ \E s \in RequestIds : DispatchThrow(s)

WebhookSpec == WebhookInit /\ [][WebhookNext]_vars

\* The account resolver, for every configuration and environment.
ResolveInit ==
    /\ cfg \in Configs
    /\ account = WebhookAccount(1)
    /\ fetchBudget = 0
    /\ batchBudget = 0
    /\ deliverBudget = 0
    /\ InitCommon

ResolveNext ==
    \/ ResolveAccount
    \/ ListAccountIds

ResolveSpec == ResolveInit /\ [][ResolveNext]_vars

\* parseWebhookPayload, for every body.
ParseSpec == WebhookInit /\ [][ParsePayload]_vars

\* The registry alone: registrations on several paths, closures invoked in any
\* order and any number of times, and the handler's lookup of a request's path.
RegistryNext ==
    \/ RegisterAny
    \/ Unregister
    \/ Receive

RegistrySpec == WebhookInit /\ [][RegistryNext]_vars

\* The registry's keys: targets registered under raw paths with blanks and with
\* one or several trailing slashes, and requests for such paths.
RawPaths ==
    {<<"/">>, <<"hook">>, <<" ", "/", "hook", "/">>, <<"/", "hook", "/", "/">>}

RegisterRaw == RegisterTarget(RawPaths, {1})


PathNext ==
    \/ RegisterRaw
    \/ Unregister
    \/ ReceiveOn(RawPaths \cup {<<"/", "hook">>})

PathSpec == WebhookInit /\ [][PathNext]_vars

\* The steps of the polling loop and of the update it awaits.  Each one is the
\* completion of a fetch, of onUpdate or of the backoff timer, or runs without
\* waiting, so the loop takes it if it stays possible.
PollProgress ==
    \/ LoopTop
    \/ FetchThrows
    \/ FetchNotOk
    \/ FetchOk
    \/ OnUpdateSettled
    \/ SleepDone
    \/ MonitorSettled
    \/ Deliver(PollSlot)
    \/ SendDone(PollSlot)
    \/ OnError(PollSlot)
    \/ DispatchReturn(PollSlot)
    \/ DispatchThrow(PollSlot)

FairPollSpec == PollSpec /\ WF_vars(PollProgress)

\* ------------------------------------------------------------------ claims
\* The value of the request's x-sc3bot-webhook-secret header (undefined if the
\* request has none).
RequestSecret(headers) ==
    IF headers.lower # AbsentHeader THEN HeaderValue(headers.lower)
    ELSE HeaderValue(headers.mixed)

\* The request was a POST to a path that had exactly these many targets.
PostTo(k, n) ==
    req[k].pc # "none" /\ req[k].method = "POST" /\ Len(req[k].targets) = n

\* C1: on a path with two targets that carry distinct non-empty secrets, in
\* either registration order, a POST whose secret header equals one target's
\* secret selects that target, and an accepted update is processed for it.
C1SecretSelectsItsTarget ==
    \A k \in RequestIds :
        (/\ PostTo(k, 2)
         /\ Truthy(req[k].targets[1].secret)
         /\ Truthy(req[k].targets[2].secret)
         /\ req[k].targets[1].secret # req[k].targets[2].secret)
        => \A i \in 1..2 :
               req[k].headers.lower = StringHeader(req[k].targets[i].secret)
               => /\ req[k].selected = req[k].targets[i]
                  /\ req[k].statusCode # 401
                  /\ proc[k].state # "idle"
                     => proc[k].accountId = req[k].targets[i].account.accountId

C1Witness ==
    \E k \in RequestIds :
        /\ PostTo(k, 2)
        /\ Truthy(req[k].targets[1].secret)
        /\ Truthy(req[k].targets[2].secret)
        /\ req[k].targets[1].secret # req[k].targets[2].secret
        /\ req[k].headers.lower = StringHeader(req[k].targets[2].secret)
        /\ req[k].selected.id = req[k].targets[2].id
        /\ req[k].statusCode = 200

\* C2: when the path's only target has a secret and a POST carries no secret
\* header or another value, the answer is 401, the body is never read and no
\* update is processed for the request.
C2WrongSecretUnauthorized ==
    \A k \in RequestIds :
        (/\ PostTo(k, 1)
         /\ Truthy(req[k].targets[1].secret)
         /\ RequestSecret(req[k].headers) # req[k].targets[1].secret)
        => /\ req[k].pc = "responded"
           /\ req[k].statusCode = 401
           /\ req[k].responses = 1
           /\ req[k].total = 0 /\ req[k].chunks = 0 /\ ~req[k].parsed
           /\ proc[k].state = "idle"

C2Witness ==
    \E k \in RequestIds :
        /\ PostTo(k, 1)
        /\ req[k].targets[1].secret = <<"s1">>
        /\ req[k].headers.lower = StringHeader(<<"wrong">>)
        /\ req[k].statusCode = 401

\* C4: once the handler has called the update processor for a request, the
\* 200 "ok" response is already written, exactly once, and it stays so while
\* the call is in flight and after it has failed (send failure, segment error,
\* dispatcher error); the call logs for the account of the selected target.
C4AckBeforeProcessingEnds ==
    \A k \in RequestIds :
        proc[k].state # "idle"
        => /\ req[k].pc = "responded"
           /\ req[k].statusCode = 200
           /\ req[k].text = "ok"
           /\ req[k].responses = 1
           /\ proc[k].accountId = req[k].selected.account.accountId

C4Witness ==
    \E k \in RequestIds :
        /\ proc[k].state = "done"
        /\ {"send error", "dispatch error"} \subseteq proc[k].log
        /\ req[k].statusCode = 200

\* C3: for an account started in webhook mode, once the cancellation signal
\* has fired and startAccount has finished, the account's target is no longer
\* in the registry.
C3TargetGoneAfterAbort ==
    (aborted /\ lpc \in {"returned", "threw"} /\ wantsWebhook(account.config))
    => RegisteredTargets = {}

\* C5: the updates of a batch are handed to onUpdate in the order received,
\* one call each; from the call on the cursor is that update's id plus one;
\* every fetch is issued with the cursor; and a batch that ends without a
\* throw has been handed whole.
C5Handed ==
    /\ Len(handed) = idx
    /\ handed = SubSeq(batch, 1, Len(handed))
    /\ lastHanded # NoNum => offset = lastHanded + 1
    /\ lastHanded = NoNum => offset = 0
    /\ ppc = "fetch" => fetchOffset = offset
    /\ ppc = "onUpdate" => idx >= 1 /\ lastHanded = batch[idx].update_id

C5BatchStep ==
    (ppc = "onUpdate" /\ ppc' = "top") => handed = batch

C5CursorFollowsHandOff == [](lpc = "polling" => C5Handed) /\ [][C5BatchStep]_vars

C5Witness ==
    /\ ppc = "fetch"
    /\ fetches = 2
    /\ lastHanded = 1
    /\ fetchOffset = 2

\* C6: after a fetch that failed (it threw, or resolved not ok) the next fetch
\* is issued only after the failure was logged and the backoff has elapsed.
C6BackoffAfterFailedFetch ==
    (ppc = "fetch" /\ lastFetch \in {"threw", "not ok"}) => (pollLogged /\ slept)

\* C7: while the signal has not fired the polling loop neither returns nor
\* rejects, whatever the fetches and onUpdate did.
C7LoopOnlyEndsOnAbort ==
    /\ ppc # "rejected"
    /\ lpc # "threw"
    /\ (ppc = "done" \/ lpc = "returned") => aborted

C7Witness ==
    /\ ~aborted
    /\ lpc = "polling"
    /\ ppc = "fetch"
    /\ fetches = 2
    /\ lastFetch = "updates"
    /\ pollLogged /\ slept

\* C8: once the signal has fired no fetch is issued any more, an update being
\* processed is carried to its end, and the loop eventually ends.
C8NoFetchStep == fetches' # fetches => ~aborted

C8InFlight == proc[PollSlot].state \in {"dispatching", "sending"}

C8KeepsProcessingStep ==
    C8InFlight => proc'[PollSlot].state \in {"dispatching", "sending", "done"}

C8StopsAfterAbort ==
    /\ [][C8NoFetchStep]_vars
    /\ [][C8KeepsProcessingStep]_vars
    /\ (aborted /\ lpc = "polling") ~> (ppc = "done")

C8Witness ==
    /\ aborted
    /\ ppc = "done"
    /\ lastHanded # NoNum

\* C9: the polling loop is started exactly when pollingEnabled is true or,
\* pollingEnabled being unset, no non-blank webhook URL, path or secret is
\* configured; a webhook target is registered only otherwise (then always,
\* unless no path can be derived); no account both polls and has a target.
NonBlank(x) == x # Undef /\ Trim(x) # <<>>

C9ExpectPolling(config) ==
    IF config.pollingEnabled = "true" THEN TRUE
    ELSE IF config.pollingEnabled = "false" THEN FALSE
    ELSE ~(\/ NonBlank(config.webhookUrl)
           \/ NonBlank(config.webhookPath)
           \/ NonBlank(config.webhookSecret))

C10PollsWhenUnset ==
    (lpc \in {"polling", "returned"} /\ account.config.pollingEnabled = "unset")
    => ppc # "idle"

\* The chat the update being processed by the polling loop came from.
OriginChat == updateChatId(batch[idx].message)

\* The chats the call in slot s has sent to, the send in flight included.
SentTo(s) ==
    {proc[s].sends[i] : i \in 1..Len(proc[s].sends)}
    \cup (IF proc[s].state = "sending" THEN {proc[s].sendTo} ELSE {})

C12ReplyToInboundChat ==
    (ppc = "onUpdate" /\ proc[PollSlot].state # "idle")
    => \A chat \in SentTo(PollSlot) : chat = OriginChat

\* C13: starting an account without a credential fails before the probe:
\* startAccount throws, nothing is probed, registered or fetched, and the
\* account's status shows running = false with an error message.
C13MissingTokenFails ==
    (lpc # "idle" /\ ~Truthy(account.config.botToken))
    => /\ lpc = "threw"
       /\ thrown = "token not configured"
       /\ ~status[account.accountId].bot
       /\ ~status[account.accountId].lastStartAt
       /\ nextTargetId = 1 /\ RegisteredTargets = {}
       /\ ppc = "idle" /\ fetches = 0
       /\ ~status[account.accountId].running
       /\ status[account.accountId].lastError # ""

\* The account ran and the signal has torn its work down: the polling loop has
\* ended on the signal, or the target it had registered was removed by it.
C14TornDown ==
    /\ aborted
    /\ lpc = "returned"
    /\ \/ ppc = "done"
       \/ ppc = "idle" /\ nextTargetId > 1 /\ RegisteredTargets = {}

\* C14: once the signal has fired for a running account and its work has
\* ended, the account's status is no longer running.
C14StoppedAfterTeardown ==
    C14TornDown => ~status[account.accountId].running

\* C15: on a path whose only target has no secret, a POST is routed to that
\* target with or without a secret header and whatever its value: it is never
\* refused, and an update it carries is processed for that target's account.
C15LoneOpenTargetTakesAll ==
    \A k \in RequestIds :
        (PostTo(k, 1) /\ ~Truthy(req[k].targets[1].secret))
        => /\ req[k].selected = req[k].targets[1]
           /\ req[k].statusCode \notin {401, 405}
           /\ req[k].pc # "not handled"
           /\ proc[k].state # "idle"
              => proc[k].accountId = req[k].targets[1].account.accountId

C15Witness ==
    \E k \in RequestIds :
        /\ PostTo(k, 1)
        /\ req[k].targets[1].secret = Undef
        /\ req[k].headers.lower = StringHeader(<<"wrong">>)
        /\ req[k].statusCode = 200
        /\ proc[k].state = "dispatching"

\* The targets of request k's path without a secret, and those whose secret
\* the request's header equals.
OpenTargets(k) ==
    {i \in 1..Len(req[k].targets) : ~Truthy(req[k].targets[i].secret)}

MatchingTargets(k) ==
    {i \in 1..Len(req[k].targets) :
        /\ Truthy(req[k].targets[i].secret)
        /\ RequestSecret(req[k].headers) = req[k].targets[i].secret}

\* C16: on a path with several targets, when no target's secret matches the
\* header, the one target without a secret is selected if there is exactly
\* one; with none or several, no target is selected, the answer is 401 and
\* nothing is read or processed.
C16FallbackOnlyWhenUnambiguous ==
    \A k \in RequestIds :
        (/\ req[k].pc # "none" /\ req[k].method = "POST"
         /\ Len(req[k].targets) >= 2
         /\ MatchingTargets(k) = {})
        => IF Cardinality(OpenTargets(k)) = 1
           THEN /\ \A i \in OpenTargets(k) : req[k].selected = req[k].targets[i]
                /\ req[k].statusCode # 401
           ELSE /\ req[k].selected = NoTarget
                /\ req[k].pc = "responded"
                /\ req[k].statusCode = 401
                /\ req[k].total = 0
                /\ proc[k].state = "idle"

C16Witness ==
    \E k \in RequestIds :
        /\ PostTo(k, 2)
        /\ OpenTargets(k) = {1, 2}
        /\ req[k].headers.lower = AbsentHeader
        /\ req[k].headers.mixed = AbsentHeader
        /\ req[k].statusCode = 401

\* C17: invoking an unregister closure again, whatever was registered or
\* unregistered since its first invocation, leaves the registry as it is.
C17CalledClosureInert ==
    \A c \in closures :
        c.id \in called
        => RegistryAfterUnregister(webhookTargets, c.key, c.id) = webhookTargets

C17RepeatStep ==
    (nextTargetId' = nextTargetId /\ called' = called)
    => webhookTargets' = webhookTargets

C17UnregisterIdempotent == []C17CalledClosureInert /\ [][C17RepeatStep]_vars

C17Witness ==
    /\ called = {1}
    /\ nextTargetId = 3
    /\ \E t \in RegisteredTargets : t.id = 2 /\ t.path = <<"/", "hook">>
    /\ \E c \in closures : c.id = 1 /\ c.key = <<"/", "hook">>

\* The registrations of a list that none of these closures has removed.
KeptTargets(list, ids) ==
    LET Kept(t) == t.id \notin ids
    IN  SelectSeq(list, Kept)

\* The registrations made so far, by identity.
RegistrationIds == 1..(nextTargetId - 1)

\* C18: a closure removes exactly the registration that produced it.  The
\* registry holds the registrations whose closure has not been invoked, and a
\* step that invokes a closure leaves every path with its other targets, in
\* their order, also when two registrations are of the same target.
C18RegistryIsUncalled ==
    /\ {t.id : t \in RegisteredTargets} = RegistrationIds \ called
    /\ \A key \in DOMAIN webhookTargets :
           \A i, j \in 1..Len(webhookTargets[key]) :
               i < j => webhookTargets[key][i].id < webhookTargets[key][j].id

C18UnregisterStep ==
    (nextTargetId' = nextTargetId)
    => /\ DOMAIN webhookTargets' \subseteq DOMAIN webhookTargets
       /\ \A key \in DOMAIN webhookTargets :
              MapGet(webhookTargets', key)
                  = KeptTargets(webhookTargets[key], called' \ called)

Arrives(k) == req[k].pc = "none" /\ req'[k].pc # "none"

\* The registry has a target on the path request k names.
PathRegistered(k) ==
    \E t \in RegisteredTargets : t.path = normalizeWebhookPath(req'[k].path)

\* C19: a request that is not a POST, to a path with a registered target, is
\* answered 405 with Allow: POST whatever its secret header; its body is not
\* read and no update is processed for it.
C19NonPostAnswered ==
    \A k \in RequestIds :
        (req[k].pc # "none" /\ req[k].method # "POST")
        => /\ proc[k].state = "idle"
           /\ req[k].total = 0 /\ req[k].chunks = 0 /\ ~req[k].parsed
           /\ req[k].pc \in {"not handled", "responded"}
           /\ req[k].pc = "responded"
              => /\ req[k].handled
                 /\ req[k].statusCode = 405
                 /\ req[k].allow = "POST"
                 /\ req[k].responses = 1

C19ArrivalStep ==
    \A k \in RequestIds :
        (Arrives(k) /\ req'[k].method # "POST" /\ PathRegistered(k))
        => req'[k].pc = "responded"

C19MethodNotAllowed == []C19NonPostAnswered /\ [][C19ArrivalStep]_vars

C19Witness ==
    \E k \in RequestIds :
        /\ req[k].method = "GET"
        /\ Len(req[k].targets) = 1
        /\ req[k].targets[1].secret = <<"s1">>
        /\ req[k].headers.lower = StringHeader(<<"wrong">>)
        /\ req[k].statusCode = 405
        /\ req[k].allow = "POST"

\* C20: a request to a path without a registered target is not handled and
\* nothing is written to its response; a path whose targets have all been
\* unregistered is such a path, the registry keeping no empty list.
C20UnhandledUntouched ==
    /\ \A key \in DOMAIN webhookTargets : Len(webhookTargets[key]) > 0
    /\ \A k \in RequestIds :
           req[k].pc = "not handled"
           => /\ ~req[k].handled
              /\ req[k].responses = 0
              /\ req[k].statusCode = 0
              /\ req[k].text = "" /\ req[k].allow = ""
              /\ proc[k].state = "idle"

C20ArrivalStep ==
    \A k \in RequestIds :
        Arrives(k) => (req'[k].pc = "not handled") = ~PathRegistered(k)

C20UnknownPathNotHandled == []C20UnhandledUntouched /\ [][C20ArrivalStep]_vars

C20Witness ==
    \E k \in RequestIds :
        /\ req[k].pc = "not handled"
        /\ req[k].path = <<"/", "hook", "/">>
        /\ req[k].method = "POST"
        /\ nextTargetId = 3
        /\ called = {1, 2}
        /\ webhookTargets = EmptyMap

\* C21: a body of at most the byte ceiling is never answered 413, and one
\* that has grown past the ceiling, in whatever chunks, is answered 413 at
\* once: it is not parsed and no update is processed for it.
C21CeilingIsInclusive ==
    \A k \in RequestIds :
        /\ req[k].total <= WebhookMaxBytes => req[k].statusCode # 413
        /\ req[k].total > WebhookMaxBytes
           => /\ req[k].pc = "responded"
              /\ req[k].statusCode = 413
              /\ req[k].responses = 1
              /\ ~req[k].parsed
              /\ proc[k].state = "idle"
        /\ req[k].parsed => req[k].total \in 1..WebhookMaxBytes

C21Witness ==
    \E k \in RequestIds :
        /\ req[k].total = WebhookMaxBytes + 1
        /\ req[k].chunks = 2
        /\ req[k].statusCode = 413

\* The update the polling loop is processing has a message without any chat
\* identifier.
C22NoChatId ==
    /\ ppc = "onUpdate"
    /\ batch[idx].message.present
    /\ batch[idx].message.chat = NoNum
    /\ batch[idx].message.chat_id = NoNum
    /\ batch[idx].message.from = NoNum

\* C22: an update without any chat identifier is dropped: the error is
\* logged, the dispatcher is not called and nothing is sent; handing it over
\* records no inbound timestamp; and the loop goes on to the next update or
\* the next fetch without backing off.
C22Dropped ==
    C22NoChatId
    => /\ proc[PollSlot].state = "done"
       /\ proc[PollSlot].log = {"missing chat id"}
       /\ proc[PollSlot].delivers = 0
       /\ SentTo(PollSlot) = {}
       /\ ~proc[PollSlot].outbound

C22HandOverStep ==
    (C22NoChatId' /\ handed' # handed) => status' = status

C22ContinueStep ==
    (C22NoChatId /\ ppc' # "onUpdate")
    => /\ ppc' = "top"
       /\ handed = batch
       /\ pollLogged' = pollLogged /\ slept' = slept

C22NextUpdateStep ==
    (C22NoChatId /\ idx < Len(batch) /\ (ppc' # ppc \/ idx' # idx))
    => /\ ppc' = "onUpdate"
       /\ idx' = idx + 1
       /\ handed' = Append(handed, batch[idx + 1])

C22UpdateWithoutChatDropped ==
    /\ []C22Dropped
    /\ [][C22HandOverStep]_vars
    /\ [][C22ContinueStep]_vars
    /\ [][C22NextUpdateStep]_vars

C22Witness ==
    /\ ppc = "onUpdate"
    /\ idx = 2
    /\ batch[1].message.present
    /\ updateChatId(batch[1].message) = NoNum
    /\ proc[PollSlot].state = "dispatching"
    /\ ~pollLogged

\* The reply texts that are missing, empty or blank.
BlankTexts == {Undef, <<>>, <<" ">>}

\* C23: the delivery callback called with a missing, empty or blank text makes
\* no send and records no outbound timestamp: from every state the dispatcher
\* can call it in, it only returns.
C23BlankDeliverInert ==
    \A text \in BlankTexts :
        proc[PollSlot].state = "dispatching"
        => LET after == ProcAfterDeliver(proc[PollSlot], [text |-> text])
           IN  /\ after.state = "dispatching"
               /\ after.sends = proc[PollSlot].sends
               /\ after.sendTo = NaN
               /\ after.outbound = proc[PollSlot].outbound
               /\ after.log = proc[PollSlot].log

C23BlankDeliverStep ==
    (/\ proc'[PollSlot].delivers = proc[PollSlot].delivers + 1
     /\ proc'[PollSlot].state = "dispatching")
    => /\ proc'[PollSlot].sends = proc[PollSlot].sends
       /\ proc'[PollSlot].outbound = proc[PollSlot].outbound
       /\ status' = status

C23BlankReplyNotSent == []C23BlankDeliverInert /\ [][C23BlankDeliverStep]_vars

C23Witness ==
    /\ proc[PollSlot].state = "dispatching"
    /\ proc[PollSlot].delivers = 1
    /\ proc[PollSlot].sends = <<>>
    /\ ~proc[PollSlot].outbound
    /\ ~status[account.accountId].lastOutboundAt

\* A value counts as present when it is set at all, or when it is set and
\* non-empty: the two readings of "present".
PresentReadings == {"set", "nonempty"}

IsPresent(reading, v) ==
    IF reading = "set" THEN v # Undef /\ v # Null ELSE Truthy(v)

\* The credential and the provenance the precedence rule gives under a reading.
C24ExpectToken(reading, c, id) ==
    LET o == AccountConfigOf(c, id).botToken
        t == SectionOf(c).botToken
    IN  IF IsPresent(reading, o) THEN o
        ELSE IF IsPresent(reading, t) THEN t
        ELSE IF IsPresent(reading, c.env) THEN c.env
        ELSE Undef

C24ExpectSource(reading, c, id) ==
    LET o == AccountConfigOf(c, id).botToken
        t == SectionOf(c).botToken
    IN  IF IsPresent(reading, o) \/ IsPresent(reading, t) THEN "config"
        ELSE IF IsPresent(reading, c.env) THEN "env"
        ELSE "none"

\* C24: the resolved account takes its credential from the override, else the
\* channel-level value, else the environment, and reports the provenance of
\* that same choice ('config', 'env' or 'none'), under one reading of
\* "present"; the polling interval falls back to the hard-coded default; with
\* no configuration and no environment credential the result is the default
\* account with provenance 'none'.
C24ResolutionPrecedence ==
    resolved[2] # Unresolved
    => LET r == resolved[2]
       IN  /\ \E reading \in PresentReadings :
                  /\ r.config.botToken = C24ExpectToken(reading, cfg, r.accountId)
                  /\ r.tokenSource = C24ExpectSource(reading, cfg, r.accountId)
           /\ r.config.pollingIntervalMs =
                  CoalesceNum(CoalesceNum(
                      AccountConfigOf(cfg, r.accountId).pollingIntervalMs,
                      SectionOf(cfg).pollingIntervalMs), DefaultPollingIntervalMs)
           /\ (cfg = NoConfig /\ ~Truthy(OptTrim(resolved[1])))
              => (r.accountId = DefaultAccountId /\ r.tokenSource = "none")

\* C25: the listed account identifiers always hold the default identifier, in
\* first position, and are the single default identifier when the section has
\* no accounts object.
C25DefaultListedFirst ==
    listed # <<>>
    => /\ listed[1] = DefaultAccountId
       /\ (~cfg.hasSection \/ ~cfg.hasAccounts) => listed = <<DefaultAccountId>>

\* C26: when a fetch is issued after a fetch round that ended without an error,
\* the loop has waited the account's configured polling interval since the
\* earlier fetch ended.
C26WaitsConfiguredInterval ==
    (ppc = "fetch" /\ fetches >= 2 /\ lastFetch \in {"empty", "updates"} /\ ~slept)
    => WaitedSinceFetch = account.config.pollingIntervalMs

\* The messages of the errors the awaited loop could reject with.
C27Messages == {"polling error", "fetch failed"}

\* Were the awaited loop to reject now, the status the catch block leaves: the
\* account is not running, lastError is the message, and nothing else changes.
C27ErroredStatus ==
    lpc = "polling"
    => \A message \in C27Messages :
           LET st == StatusAfterMonitorRejected(status, account.accountId, message)
           IN  /\ ~st[account.accountId].running
               /\ st[account.accountId].lastError = message
               /\ \A id \in DOMAIN status :
                      [st[id] EXCEPT !.running = FALSE, !.lastError = ""]
                      = [status[id] EXCEPT !.running = FALSE, !.lastError = ""]
               /\ \A id \in DOMAIN status \ {account.accountId} : st[id] = status[id]

\* startAccount throws while polling only when the loop has rejected, and then
\* the recorded message is the rethrown error's.
C27RethrowStep ==
    (lpc = "polling" /\ lpc' = "threw")
    => /\ ppc = "rejected"
       /\ status' = StatusAfterMonitorRejected(status, account.accountId, thrown')

\* A rejected onUpdate call is taken by the loop's own guard: the loop logs and
\* backs off, and the account's status and startAccount's position do not change.
C27GuardStep ==
    (ppc = "onUpdate" /\ proc[PollSlot].state = "rejected" /\ ppc' # ppc)
    => /\ ppc' = "sleep" /\ pollLogged'
       /\ lpc' = lpc /\ thrown' = thrown
       /\ status' = status

SendFailures == {"failed to send reply", "send error"}

\* After the one send of a call, the outbound timestamp was recorded or a send
\* failure was logged, never both; a call sends at most once per deliver, and a
\* call that has sent does not reject.
C28OutboundOrLogged ==
    LET p == proc[PollSlot]
    IN  /\ Len(p.sends) + (IF p.state = "sending" THEN 1 ELSE 0) <= p.delivers
        /\ p.sends # <<>> => (p.outbound <=> p.log \cap SendFailures = {})
        /\ p.sends = <<>> => (~p.outbound /\ p.log \cap SendFailures = {})
        /\ p.delivers > 0 => p.state # "rejected"

\* The send settles: deliver returns to the dispatcher, the send is counted once,
\* and the status changes only with a send that was not logged as failed, by
\* taking the outbound timestamp.
C28SendSettledStep ==
    LET p == proc[PollSlot]
        q == proc'[PollSlot]
    IN  (p.state = "sending" /\ q # p)
        => /\ q.state = "dispatching"
           /\ q.sends = Append(p.sends, p.sendTo)
           /\ q.delivers = p.delivers
           /\ q.log # p.log => status' = status
           /\ q.log = p.log
              => status' = [status EXCEPT ![p.accountId].lastOutboundAt = TRUE]

\* The outbound timestamp of the status is only ever set by such a send.
C28TimestampStep ==
    (\E id \in DOMAIN status : status'[id].lastOutboundAt # status[id].lastOutboundAt)
    => /\ proc[PollSlot].state = "sending"
       /\ proc'[PollSlot].outbound
       /\ proc'[PollSlot].log = proc[PollSlot].log

\* C28: the outbound timestamp is recorded if and only if the send returned
\* ok; a send that returned not ok or threw is logged, records no timestamp, is
\* not sent again and leaves deliver and the update's processing to end
\* normally.
C28TimestampIffSendOk ==
    /\ []C28OutboundOrLogged
    /\ [][C28SendSettledStep /\ C28TimestampStep]_vars

\* A call whose one send failed has ended normally with the failure logged and
\* no outbound timestamp in the status.
C28Witness ==
    /\ proc[PollSlot].state = "done"
    /\ Len(proc[PollSlot].sends) = 1
    /\ proc[PollSlot].log \cap SendFailures # {}
    /\ ~proc[PollSlot].outbound
    /\ ~status[proc[PollSlot].accountId].lastOutboundAt

\* The log entries of a dispatcher failure.
DispatchFailures == {"reply failed", "dispatch error"}

\* A call that logged a dispatcher failure has not rejected, and a call whose
\* dispatcher threw has ended.
C29FailedDispatchNotRejected ==
    LET p == proc[PollSlot]
    IN  /\ p.log \cap DispatchFailures # {} => p.state # "rejected"
        /\ "dispatch error" \in p.log => p.state = "done"

\* A dispatcher failure is logged: a failed segment leaves the dispatch going,
\* a throw of the dispatcher ends the call normally; neither touches the loop.
C29FailureStep ==
    LET p == proc[PollSlot]
        q == proc'[PollSlot]
    IN  /\ ("reply failed" \in q.log \ p.log) => q.state = p.state
        /\ ("dispatch error" \in q.log \ p.log) => q.state = "done"
        /\ (q.log \cap DispatchFailures) \ p.log # {}
           => /\ ppc' = ppc /\ idx' = idx /\ batch' = batch /\ offset' = offset
              /\ pollLogged' = pollLogged /\ status' = status

\* The loop takes the end of a call that logged a dispatcher failure as it takes
\* any other: the next update of the batch is handed, or the batch is finished,
\* with no log entry of the loop and no backoff.
C29LoopGoesOnStep ==
    LET p == proc[PollSlot]
    IN  (/\ ppc = "onUpdate" /\ p.state = "done"
         /\ p.log \cap DispatchFailures # {}
         /\ (proc' # proc \/ ppc' # ppc))
        => /\ pollLogged' = pollLogged /\ slept' = slept
           /\ IF idx < Len(batch)
              THEN /\ ppc' = "onUpdate" /\ idx' = idx + 1
                   /\ lastHanded' = batch[idx + 1].update_id
              ELSE ppc' = "top"

\* C29: a segment error reported through onError and an exception of the
\* dispatcher call are logged and the update's processing still ends normally;
\* the polling loop goes on to the next update of the batch without backoff.
C29DispatcherFailuresLogged ==
    /\ []C29FailedDispatchNotRejected
    /\ [][C29FailureStep /\ C29LoopGoesOnStep]_vars

\* A call has ended normally with both kinds of dispatcher failure logged, and
\* the batch has a further update to hand.
C29Witness ==
    /\ ppc = "onUpdate" /\ idx < Len(batch)
    /\ proc[PollSlot].state = "done"
    /\ DispatchFailures \subseteq proc[PollSlot].log

\* The request is past its target selection and waits for its body.
C30Routed(k) == req[k].pc = "reading"

\* While a routed request waits for its body, no step changes the target list
\* it read or the target it selected.
C30SnapshotStep ==
    \A k \in RequestIds :
        C30Routed(k)
        => /\ req'[k].targets = req[k].targets
           /\ req'[k].selected = req[k].selected

\* When the body of a routed request is accepted, the update is processed for
\* the account of the target selected on arrival and that account's status
\* takes the inbound timestamp, whatever the registry holds by then.
C30ProcessedStep ==
    \A k \in RequestIds :
        (C30Routed(k) /\ req'[k].statusCode = 200)
        => /\ proc'[k].accountId = req[k].selected.account.accountId
           /\ proc'[k].configuredChatId = OptTrim(req[k].selected.account.config.chatId)
           /\ status'[req[k].selected.account.accountId].lastInboundAt

\* C30: a request that has selected its target is processed with that target
\* even if targets are registered or unregistered on its path while its body
\* is read, and the target list it read is never changed by a later register
\* or unregister.
C30RoutingIsSnapshot ==
    [][C30SnapshotStep /\ C30ProcessedStep]_vars

\* While a routed request waits for its body, its target has been unregistered
\* and another target registered on its path: the list it read is no longer
\* the registry's.
C30Witness ==
    \E k \in RequestIds :
        /\ C30Routed(k)
        /\ req[k].selected \notin RegisteredTargets
        /\ MapGet(webhookTargets, normalizeWebhookPath(req[k].path)) # <<>>
        /\ req[k].targets # MapGet(webhookTargets, normalizeWebhookPath(req[k].path))

\* The server's answer to a fetch with this offset has strictly increasing
\* update ids, none below the offset.
C31ServerOrdered(result, off) ==
    /\ \A i \in 1..Len(result) : result[i].update_id >= off
    /\ \A i, j \in 1..Len(result) :
           i < j => result[i].update_id < result[j].update_id

\* An update is handed to onUpdate in this step.
C31HandOff == Len(handed') = Len(handed) + 1

\* An update of an ordered answer is handed: its id is not below the id of the
\* update handed before it, in this batch or an earlier one, and the cursor
\* does not move back.
C31HandOffStep ==
    (C31HandOff /\ C31ServerOrdered(batch', fetchOffset))
    => /\ lastHanded # NoNum => lastHanded' >= lastHanded
       /\ offset' > offset

\* No other step moves the cursor.
C31CursorStep == offset' # offset => C31HandOff

\* C31: when the server's answers carry strictly increasing update ids not
\* below the requested offset, updates are handed to onUpdate in non-decreasing
\* id order across all batches and the cursor never decreases.
C31HandedInOrder == [][C31HandOffStep /\ C31CursorStep]_vars

\* The second update of an ordered two-update answer is being processed, in
\* the second fetch round of the loop.
C31Witness ==
    /\ ppc = "onUpdate" /\ idx = 2 /\ fetches = 2
    /\ C31ServerOrdered(batch, fetchOffset)
    /\ lastHanded = batch[2].update_id
    /\ offset = lastHanded + 1

\* While a fetch is in flight no onUpdate call of the loop is running and no
\* batch is being walked.
C32FetchAlone ==
    ppc = "fetch"
    => /\ proc[PollSlot].state = "idle"
       /\ batch = <<>> /\ idx = 0 /\ handed = <<>>

\* A fetch is issued only from the top of the loop: the fetch before it has
\* settled and every onUpdate call of its batch has settled.
C32IssueStep ==
    fetches' # fetches
    => /\ fetches' = fetches + 1
       /\ ppc = "top" /\ ppc' = "fetch"
       /\ proc[PollSlot].state = "idle"

\* While an onUpdate call is running the loop does nothing but wait for it.
C32AwaitStep ==
    (ppc = "onUpdate" /\ proc[PollSlot].state \in {"dispatching", "sending"})
    => /\ ppc' = "onUpdate"
       /\ fetches' = fetches /\ idx' = idx /\ batch' = batch

\* C32: one account's polling loop has at most one fetch in flight, and issues
\* no fetch while onUpdate for an update of the previous batch has not ended.
C32OneFetchAtATime ==
    /\ [](lpc = "polling" => C32FetchAlone)
    /\ [][C32IssueStep /\ C32AwaitStep]_vars

\* The second fetch is in flight after the updates of the first were handed and
\* their onUpdate calls have ended.
C32Witness ==
    /\ ppc = "fetch" /\ fetches = 2
    /\ lastFetch = "updates" /\ ~pollLogged
    /\ lastHanded # NoNum
    /\ proc[PollSlot].state = "idle"

\* The update whose onUpdate call the loop is waiting for.
C33Message == batch[idx].message

\* The identifier the fallback order picks: the nested chat object's id, else
\* the direct chat_id field, else the sender's id, else none.
C33Picked ==
    IF C33Message.chat # NoNum THEN C33Message.chat
    ELSE IF C33Message.chat_id # NoNum THEN C33Message.chat_id
    ELSE IF C33Message.from # NoNum THEN C33Message.from
    ELSE NoNum

\* The decimal strings of the identifiers the messages carry.
C33Decimal ==
    (0 :> <<"0">>) @@ (5 :> <<"5">>) @@ (7 :> <<"7">>) @@ (42 :> <<"4", "2">>)

\* C33: the update processor takes the chat identifier from the nested chat
\* object's id if present, else from the direct chat_id field, else from the
\* sender's id, and uses its decimal string as From, To, SenderId and in the
\* session key "serverchan-bot:{chatId}".
C33ChatIdFallback ==
    (ppc = "onUpdate" /\ C33Picked # NoNum)
    => LET chatId == C33Decimal[C33Picked]
           p == proc[PollSlot]
       IN  /\ p.state \in {"dispatching", "sending", "done"}
           /\ p.chatId = chatId
           /\ p.ctx.From = chatId /\ p.ctx.To = chatId /\ p.ctx.SenderId = chatId
           /\ p.ctx.SessionKey = <<"serverchan-bot:">> \o chatId

\* A message with a direct chat_id and a sender id and no nested chat id is
\* being dispatched under its chat_id.
C33Witness ==
    /\ ppc = "onUpdate" /\ proc[PollSlot].state = "dispatching"
    /\ C33Message.chat = NoNum /\ C33Message.chat_id = 42 /\ C33Message.from = 5
    /\ proc[PollSlot].ctx.SessionKey = <<"serverchan-bot:", "4", "2">>

\* A normalized path: it starts with "/" and does not end with "/" unless it
\* is "/" itself.
C34Normalized(path) ==
    /\ path # <<>> /\ Head(path) = "/"
    /\ path = <<"/">> \/ path[Len(path)] # "/"

\* C34: every key of the registry is a normalized path and is left as it is by
\* normalizeWebhookPath, and a request is looked up under the normalization of
\* its URL path.
C34KeysNormalized ==
    /\ \A key \in DOMAIN webhookTargets :
           /\ C34Normalized(key)
           /\ normalizeWebhookPath(key) = key
    /\ \A k \in RequestIds :
           req[k].pc \notin {"none", "not handled"}
           => /\ req[k].targets # <<>>
              /\ \A i \in 1..Len(req[k].targets) :
                     req[k].targets[i].path = normalizeWebhookPath(req[k].path)

\* The body parseWebhookPayload was called with, and what it returned.
C35Body == parseCall[1]

C35Result == parseCall[2]

\* A well-formed update body: ok is true, update_id is a number, and message
\* is an object with a numeric message_id, a string text and a numeric chat_id
\* or a chat object with a numeric id.
C35WellFormed ==
    /\ C35Body.type = "object"
    /\ C35Body.ok.type = "true"
    /\ C35Body.update_id.type = "number"
    /\ C35Body.message.type = "object"
    /\ C35Body.message.message_id.type = "number"
    /\ C35Body.message.text.type = "string"
    /\ \/ C35Body.message.chat_id.type = "number"
       \/ /\ C35Body.message.chat.type = "object"
          /\ C35Body.message.chat.id.type = "number"

\* C35: parseWebhookPayload of a well-formed update body returns an update
\* with the body's update_id, message_id, chat identifier and text; of every
\* other body it returns null, and it does not throw.
C35ParseRoundTrip ==
    LET msg == C35Body.message
        r == C35Result
    IN  /\ r # ThrownUpdate
        /\ ~C35WellFormed => r = NullUpdate
        /\ C35WellFormed
           => /\ r.message.present
              /\ r.update_id = C35Body.update_id.n
              /\ r.message.message_id = msg.message_id.n
              /\ r.message.text = msg.text.s
              /\ msg.chat_id.type = "number" => r.message.chat_id = msg.chat_id.n
              /\ msg.chat_id.type # "number" => r.message.chat_id = msg.chat.id.n
              /\ (msg.chat.type = "object" /\ msg.chat.id.type = "number")
                 => r.message.chat = msg.chat.id.n

\* A body whose chat identifier is only in the nested chat object, with an
\* update_id, message_id and chat_id of 0 or an empty text, was parsed.
C35Witness ==
    /\ C35WellFormed
    /\ C35Body.message.chat_id.type = "null"
    /\ C35Body.update_id.n = 0 /\ C35Body.message.message_id.n = 0
    /\ C35Body.message.text.s = <<>>
    /\ C35Result.message.present
    /\ C35Result.message.chat_id = 7

\* The statuses the handler answers a request to a known path with.
C36Statuses == {200, 400, 401, 405, 413}

\* The request went to a path with targets: the handler took it.
C36Known(k) == req[k].pc \in {"reading", "responded"}

\* A request to a known path is answered at most once, and once when the
\* handler is through with it, with one of the five statuses; the update
\* processor has been called for it exactly when the status is 200, and then
\* for the selected target; a request answered 401 had none of its body read.
C36Answered ==
    \A k \in RequestIds :
        C36Known(k)
        => /\ req[k].responses = (IF req[k].pc = "responded" THEN 1 ELSE 0)
           /\ req[k].pc = "responded"
              => (req[k].handled /\ req[k].statusCode \in C36Statuses)
           /\ proc[k].state # "idle"
              <=> (req[k].pc = "responded" /\ req[k].statusCode = 200)
           /\ proc[k].state # "idle"
              => /\ req[k].selected # NoTarget
                 /\ proc[k].accountId = req[k].selected.account.accountId
           /\ req[k].statusCode = 401
              => /\ req[k].total = 0 /\ req[k].chunks = 0 /\ ~req[k].parsed
                 /\ req[k].selected = NoTarget

\* The update processor is called in the step that answers 200 and in no
\* other, and an answer once written is not written again or changed.
C36OnceStep ==
    \A k \in RequestIds :
        /\ (proc[k].state = "idle" /\ proc'[k].state # "idle")
           => (req[k].pc = "reading" /\ req'[k].statusCode = 200)
        /\ proc[k].state # "idle"
           => (proc'[k].state # "idle" /\ proc'[k].accountId = proc[k].accountId)
        /\ req[k].pc = "responded"
           => /\ req'[k].pc = "responded"
              /\ req'[k].statusCode = req[k].statusCode
              /\ req'[k].responses = req[k].responses

\* C36: every webhook request to a known path gets exactly one response, with
\* status 200, 400, 401, 405 or 413; the update processor is called exactly
\* once, for the selected target, if and only if the status is 200; the body
\* of a request answered 401 is never read.
C36OneResponse == []C36Answered /\ [][C36OnceStep]_vars

\* A request was answered 413 on its second chunk, once, and no update was
\* processed for it.
C36Witness ==
    \E k \in RequestIds :
        /\ req[k].pc = "responded" /\ req[k].statusCode = 413
        /\ req[k].chunks = 2 /\ req[k].responses = 1
        /\ proc[k].state = "idle"

\* The request selected a target that carries a secret.
C37SecretSelected(k) ==
    req[k].pc # "none" /\ req[k].selected # NoTarget /\ Truthy(req[k].selected.secret)

\* C37: a target registered with a secret is selected only for a request whose
\* secret header equals that secret, whatever targets share its path, in
\* whatever order and after whatever registrations and removals; of several
\* targets of the path with that secret, the earliest registered one still
\* present is the one selected.
C37SecretTargetNeedsItsSecret ==
    \A k \in RequestIds :
        C37SecretSelected(k)
        => /\ RequestSecret(req[k].headers) = req[k].selected.secret
           /\ \E i \in 1..Len(req[k].targets) :
                  /\ req[k].targets[i] = req[k].selected
                  /\ \A j \in 1..Len(req[k].targets) :
                         req[k].targets[j].secret = req[k].selected.secret
                         => (j >= i /\ req[k].targets[j].id >= req[k].selected.id)

\* Two targets with the same secret were on the path, and the request carrying
\* it selected the earlier registered one.
C37Witness ==
    \E k \in RequestIds :
        /\ C37SecretSelected(k)
        /\ Len(req[k].targets) = 2
        /\ req[k].targets[1].secret = req[k].targets[2].secret
        /\ req[k].selected.id = 1 /\ req[k].targets[2].id = 2

\* The account's polling loop is running, or a target of the account is in the
\* registry.
C38ActiveIntake ==
    \/ lpc = "polling" /\ ppc \notin {"idle", "done", "rejected"}
    \/ \E t \in RegisteredTargets : t.account = account

\* C38: while the account's status says running and the cancellation signal
\* has not fired, the account has an active intake, whatever its configuration.
C38RunningHasIntake ==
    (status[account.accountId].running /\ ~aborted) => C38ActiveIntake

\* An update is handed to onUpdate in this step.
C39HandOff == Len(handed') = Len(handed) + 1

\* Each update handed is the one after the update handed before it, the first
\* being update 0: no update is handed twice and none is passed over, whether
\* the earlier call threw or not.
C39HandOffStep ==
    C39HandOff
    => lastHanded' = (IF lastHanded = NoNum THEN 0 ELSE lastHanded + 1)

\* No other step changes which update was handed last, and a call that threw
\* is followed by the backoff, not by another hand-off.
C39OtherStep ==
    /\ ~C39HandOff => lastHanded' = lastHanded
    /\ (ppc = "onUpdate" /\ proc[PollSlot].state = "rejected" /\ ppc' # ppc)
       => (ppc' = "sleep" /\ ~C39HandOff /\ offset' = lastHanded + 1)

\* A batch that ended without a throw was handed whole, and a fetch asks for
\* the updates after the last one handed.
C39NothingPassedOver ==
    /\ ppc = "fetch" => fetchOffset = (IF lastHanded = NoNum THEN 0 ELSE lastHanded + 1)
    /\ (ppc = "onUpdate" /\ idx >= 1) => batch[idx].update_id = lastHanded
    /\ lastHanded # NoNum => lastHanded < StreamLen

\* C39: against a server that answers with exactly the updates not below the
\* offset, every update is handed to onUpdate exactly once, also when onUpdate
\* throws in the middle of a batch: the update it threw for is not handed
\* again, and the ones after it are fetched again and handed once each.
C39HandedExactlyOnce ==
    /\ [](lpc = "polling" => C39NothingPassedOver)
    /\ [][C39HandOffStep /\ C39OtherStep]_vars

\* The first batch was cut short by a throw for update 1; the second fetch
\* asked from update 2 on, and update 2 has been handed.
C39Witness ==
    /\ fetches = 2 /\ fetchOffset = 2
    /\ ppc = "onUpdate" /\ idx = 1
    /\ batch[1].update_id = 2 /\ lastHanded = 2

\* isConfigured(account): the account is reported as configured.
C40Configured == resolved[2].tokenSource # "none"

\* if (!botToken) of startAccount: the resolved account would be refused with
\* the missing-credential error.
C40MissingCredential == ~Truthy(resolved[2].config.botToken)

\* C40: a resolved account has a tokenSource other than "none" exactly when
\* its resolved botToken is a non-empty string, so an account reported as
\* configured is never refused by startAccount for a missing credential,
\* whatever the account-level, channel-level and environment credentials are,
\* empty strings included.
C40ConfiguredHasToken ==
    resolved[2] # Unresolved => (C40Configured <=> ~C40MissingCredential)

====
